---- MODULE Spec2Model ----
(***************************************************************************)
(* Model of the configuration store and change-propagation engine of       *)
(* fature-config-service:                                                  *)
(*   ConfigModel   (models/configModel.js)   rows of system_configurations *)
(*   ConfigService (services/configService.js) cache, in-process callbacks *)
(*   ConfigNotifier (websocket/configNotifier.js) socket registry          *)
(*                                                                         *)
(* Every await of the JavaScript code is a separate step of the request    *)
(* that executes it; the synchronous code between two awaits is one step.  *)
(* The store is PostgreSQL with the table of createTables (migrate.js):    *)
(* config_value, validation_schema and change_log are JSONB columns and    *)
(* change_log is '[]' until something writes it.  The pg driver hands a    *)
(* JSONB column over already parsed (a number, an object, an array), and   *)
(* configModel.js calls JSON.parse on what the driver returned: the        *)
(* argument is first turned into text ("" for [], "[object Object]" for    *)
(* an object) and JSON.parse throws unless that text is a JSON text.  A    *)
(* statement outside BEGIN/COMMIT commits by itself.  The application      *)
(* starts with createTables (app.js start), which inserts the five rows    *)
(* of insertInitialConfigs, so the table holds them in every state.        *)
(*                                                                         *)
(* The change_log of a stored row is an array, so the JSON.parse of        *)
(* ConfigModel.getConfig and of addToHistory throws on every stored row.   *)
(* The code that follows a read that returned a row (the validation and    *)
(* the transaction of updateConfig, the soft delete, the cache fill of     *)
(* getConfig, the UPDATE of addToHistory) therefore never runs; the steps  *)
(* below end where the program counters u_validate, d_update, g_fill and   *)
(* c_hupd would begin, and no behaviour reaches these counters.            *)
(***************************************************************************)
EXTENDS Integers, Sequences, FiniteSets, TLC

\* ------------------------------------------------------------------ bounds
NumProcs == 2
MaxOps == 3
MaxSeqOps == 5
CacheMaxSize == 2
CacheTTL == 1
MaxTime == 1
MaxPublish == 2
MaxBusOps == 2
MaxCacheOps == 4
MaxFrameOps == 4
MaxListOps == 3

\* ------------------------------------------------------- program constants
HistoryLimit == 50

\* a JSON value with its JavaScript type
JsNumber(n) == [t |-> "number", n |-> n]

JsObject(fields) == [t |-> "object", fields |-> fields]

\* ------------------------------------------------------------ input domains
Keys == {1}
Values == {JsNumber(1), JsNumber(2)}
Sockets == {1}
RegKeys == {1, 2}
CacheKeys == {1, 2, 3, 4}
FrameKeys == {1, 2}
ListKeys == {1, 2, 3, 4}
RegSockets == {1, 2}
Procs == 1..NumProcs
Null == 0

\* the place of a value where there is none (no row, no call)
NoValue == [t |-> "none"]

\* validation_schema: null, or the shape {type: 'number', maximum: m}
NoSchema == [type |-> "none", maximum |-> 0]

NumberMax(m) == [type |-> "number", maximum |-> m]

Schemas == {NoSchema, NumberMax(1)}

\* the shape {type: 'number', minimum: m}
NumberMin(m) == [type |-> "number", minimum |-> m]

\* {type: 'object', properties: {a: {type: 'number', minimum: 0},
\*                               b: {type: 'number', minimum: 0}}}
\* (properties in the order of Object.entries), without a "required" list
PlainObjectShape ==
    [type |-> "object",
     properties |-> <<[name |-> "a", prop |-> NumberMin(0)],
                      [name |-> "b", prop |-> NumberMin(0)]>>]

\* the same shape with required: req
ObjectShape(req) ==
    [type |-> "object",
     properties |-> <<[name |-> "a", prop |-> NumberMin(0)],
                      [name |-> "b", prop |-> NumberMin(0)]>>,
     required |-> req]

ObjectShapes == {PlainObjectShape, ObjectShape(<<"a">>), ObjectShape(<<"a", "b">>)}

\* object values: any of the properties a and b, each -1 or 1
ObjectValues ==
    {JsObject(f) :
        f \in UNION {[d -> {JsNumber(-1), JsNumber(1)}] : d \in SUBSET {"a", "b"}}}

\* the shape of the spec's scenario: an object with the one property x,
\* which is listed as required
TypedShape(property) ==
    [type |-> "object",
     properties |-> <<[name |-> "x", prop |-> property]>>,
     required |-> <<"x">>]

\* the shapes of property x: one of each type of the switch in
\* convertPropertyToJoi, with and without its constraint
TypedShapes ==
    {TypedShape(property) :
        property \in
            {[type |-> "number", minimum |-> 0, maximum |-> 2],
             [type |-> "string", enum |-> <<"on", "off">>],
             [type |-> "string"],
             [type |-> "boolean"],
             [type |-> "array", items |-> NumberMin(0)],
             [type |-> "array"],
             [type |-> "object",
              properties |-> <<[name |-> "y",
                                prop |-> [type |-> "number", minimum |-> 0,
                                          maximum |-> 2]]>>],
             [type |-> "mixed"]}}

\* object values with the one property x: numbers, texts, a boolean, null,
\* arrays and nested objects
TypedValues ==
    {JsObject([x |-> leaf]) :
        leaf \in
            {JsNumber(-1), JsNumber(0), JsNumber(2), JsNumber(3),
             [t |-> "string", s |-> "on"], [t |-> "string", s |-> "maybe"],
             [t |-> "string", s |-> ""], [t |-> "string", s |-> "1"],
             [t |-> "string", s |-> "true"],
             [t |-> "boolean", b |-> TRUE],
             [t |-> "null"],
             [t |-> "array", items |-> <<JsNumber(1)>>],
             [t |-> "array", items |-> <<JsNumber(1), JsNumber(-1)>>],
             JsObject([y |-> JsNumber(1)]), JsObject([y |-> JsNumber(3)])}}

Min(a, b) == IF a < b THEN a ELSE b

\* a JavaScript Map: a function on the keys that are present
MapGet(m, k, dflt) == IF k \in DOMAIN m THEN m[k] ELSE dflt

MapSet(m, k, v) == [x \in DOMAIN m \cup {k} |-> IF x = k THEN v ELSE m[x]]

MapDelete(m, k) == [x \in DOMAIN m \ {k} |-> m[x]]

LastN(s, n) == SubSeq(s, Len(s) - n + 1, Len(s))

\* ----------------------------------------------------------- store (rows)
\* description is a text or null; config_category is the rank of the
\* category name in the collation order
NoRow == [exists |-> FALSE, value |-> NoValue, version |-> 0, active |-> FALSE,
          validation_schema |-> NoSchema, change_log |-> <<>>,
          description |-> [t |-> "null"], config_type |-> "none",
          config_category |-> 0, created_by |-> "none"]

\* an entry of change_log: {action, old_value, new_value, ...}
NewEntry(action, oldValue, newValue) ==
    [action |-> action, old_value |-> oldValue, new_value |-> newValue]

\* INSERT INTO system_configurations ... RETURNING *, with the column defaults
\* of createTables (version 1, active true, change_log '[]'); the row is the
\* one the driver returns, its JSONB columns parsed
SqlInsertWith(v, s, type, category) ==
    [exists |-> TRUE, value |-> v, version |-> 1, active |-> TRUE,
     validation_schema |-> s, change_log |-> <<>>,
     description |-> [t |-> "null"], config_type |-> type,
     config_category |-> category, created_by |-> "system"]

\* the configData of a createConfig call carries config_type 'system',
\* config_category number 1, created_by 'system' and no description, unless
\* stated otherwise
SqlInsert(v, s) == SqlInsertWith(v, s, "system", 1)

\* ------------------------------------------- the rows of insertInitialConfigs
\* The keys of initialConfigs, numbered in collation order after the keys
\* the requests create: 11 cpa_level_amounts, 12 cpa_validation_rules,
\* 13 external_apis, 14 mlm_settings, 15 system_settings.
InitialConfigKeys == 11..15

\* {name: prop} of a shape's properties
Property(name, prop) == [name |-> name, prop |-> prop]

JsString(s) == [t |-> "string", s |-> s]

JsBoolean(b) == [t |-> "boolean", b |-> b]

JsArray(items) == [t |-> "array", items |-> items]

\* one criterion of cpa_validation_rules
Criterion(type, value) ==
    JsObject([type |-> JsString(type), value |-> JsNumber(value),
              enabled |-> JsBoolean(TRUE)])

\* initialConfigs, by key.  A number stands for hundredths (35.00 is 3500,
\* 0.01 is 1), in the values and in the bounds of the schemas alike.  The
\* categories are numbered in collation order after those the requests use:
\* 11 commission, 12 external, 13 hierarchy, 14 performance, 15 validation.
InitialConfigs(k) ==
    IF k = 11 THEN
        [config_value |->
             JsObject([level_1 |-> JsNumber(3500), level_2 |-> JsNumber(1000),
                       level_3 |-> JsNumber(500), level_4 |-> JsNumber(500),
                       level_5 |-> JsNumber(500)]),
         config_type |-> "cpa", config_category |-> 11,
         description |-> "Valores de CPA distribuídos por nível MLM",
         validation_schema |->
             [type |-> "object",
              properties |-> <<Property("level_1", NumberMin(0)),
                               Property("level_2", NumberMin(0)),
                               Property("level_3", NumberMin(0)),
                               Property("level_4", NumberMin(0)),
                               Property("level_5", NumberMin(0))>>,
              required |-> <<"level_1", "level_2", "level_3", "level_4",
                             "level_5">>]]
    ELSE IF k = 12 THEN
        [config_value |->
             JsObject([groups |->
                           JsArray(<<JsObject([operator |-> JsString("AND"),
                                               criteria |->
                                                   JsArray(<<Criterion("deposit", 3000),
                                                             Criterion("bets", 1000)>>)]),
                                     JsObject([operator |-> JsString("AND"),
                                               criteria |->
                                                   JsArray(<<Criterion("deposit", 3000),
                                                             Criterion("ggr", 2500)>>)])>>),
                       group_operator |-> JsString("OR")]),
         config_type |-> "cpa", config_category |-> 15,
         description |-> "Regras de validação CPA configuráveis",
         validation_schema |->
             [type |-> "object",
              properties |->
                  <<Property("groups",
                        [type |-> "array",
                         items |->
                             [type |-> "object",
                              properties |->
                                  <<Property("operator",
                                        [type |-> "string",
                                         enum |-> <<"AND", "OR">>]),
                                    Property("criteria",
                                        [type |-> "array",
                                         items |->
                                             [type |-> "object",
                                              properties |->
                                                  <<Property("type",
                                                        [type |-> "string",
                                                         enum |-> <<"deposit", "bets", "ggr">>]),
                                                    Property("value", NumberMin(0)),
                                                    Property("enabled", [type |-> "boolean"])>>,
                                              required |-> <<"type", "value", "enabled">>]])>>,
                              required |-> <<"operator", "criteria">>]]),
                    Property("group_operator",
                        [type |-> "string", enum |-> <<"AND", "OR">>])>>,
              required |-> <<"groups", "group_operator">>]]
    ELSE IF k = 13 THEN
        [config_value |->
             JsObject([operation_db |->
                           JsObject([sync_interval |-> JsNumber(30000000),
                                     batch_size |-> JsNumber(100000),
                                     timeout |-> JsNumber(3000000)]),
                       notification_service |->
                           JsObject([retry_attempts |-> JsNumber(300),
                                     retry_delay |-> JsNumber(500000)])]),
         config_type |-> "integration", config_category |-> 12,
         description |-> "Configurações de APIs externas",
         validation_schema |->
             [type |-> "object",
              properties |->
                  <<Property("operation_db",
                        [type |-> "object",
                         properties |->
                             <<Property("sync_interval", NumberMin(6000000)),
                               Property("batch_size",
                                   [type |-> "number", minimum |-> 10000,
                                    maximum |-> 500000]),
                               Property("timeout", NumberMin(500000))>>]),
                    Property("notification_service",
                        [type |-> "object",
                         properties |->
                             <<Property("retry_attempts",
                                   [type |-> "number", minimum |-> 100,
                                    maximum |-> 1000]),
                               Property("retry_delay", NumberMin(100000))>>])>>]]
    ELSE IF k = 14 THEN
        [config_value |->
             JsObject([max_hierarchy_levels |-> JsNumber(500),
                       calculation_method |-> JsString("standard"),
                       auto_distribution |-> JsBoolean(TRUE),
                       minimum_amount |-> JsNumber(1),
                       currency |-> JsString("BRL")]),
         config_type |-> "mlm", config_category |-> 13,
         description |-> "Configurações do sistema MLM",
         validation_schema |->
             [type |-> "object",
              properties |->
                  <<Property("max_hierarchy_levels",
                        [type |-> "number", minimum |-> 100, maximum |-> 1000]),
                    Property("calculation_method",
                        [type |-> "string",
                         enum |-> <<"standard", "progressive">>]),
                    Property("auto_distribution", [type |-> "boolean"]),
                    Property("minimum_amount", NumberMin(0)),
                    Property("currency",
                        [type |-> "string", enum |-> <<"BRL", "USD", "EUR">>])>>,
              required |-> <<"max_hierarchy_levels", "calculation_method",
                             "auto_distribution", "minimum_amount",
                             "currency">>]]
    ELSE
        [config_value |->
             JsObject([api_timeout |-> JsNumber(3000000),
                       cache_ttl |-> JsNumber(360000),
                       max_retries |-> JsNumber(300),
                       batch_size |-> JsNumber(10000),
                       cpa_monitoring_interval |-> JsNumber(30000000)]),
         config_type |-> "system", config_category |-> 14,
         description |-> "Configurações gerais do sistema",
         validation_schema |->
             [type |-> "object",
              properties |->
                  <<Property("api_timeout", NumberMin(100000)),
                    Property("cache_ttl", NumberMin(6000)),
                    Property("max_retries",
                        [type |-> "number", minimum |-> 100, maximum |-> 1000]),
                    Property("batch_size",
                        [type |-> "number", minimum |-> 1000,
                         maximum |-> 100000]),
                    Property("cpa_monitoring_interval", NumberMin(6000000))>>,
              required |-> <<"api_timeout", "cache_ttl", "max_retries",
                             "batch_size">>]]

\* insertInitialConfigs(client): for each of initialConfigs whose key has no
\* row, INSERT (config_key, config_value, config_type, config_category,
\* description, validation_schema, created_by); version, active and
\* change_log take the column defaults.  It calls no addToHistory.
InsertInitialConfigs(table) ==
    [k \in DOMAIN table |->
        IF k \in InitialConfigKeys /\ ~table[k].exists
        THEN [SqlInsertWith(InitialConfigs(k).config_value,
                            InitialConfigs(k).validation_schema,
                            InitialConfigs(k).config_type,
                            InitialConfigs(k).config_category)
                 EXCEPT !.description =
                            [t |-> "string", s |-> InitialConfigs(k).description]]
        ELSE table[k]]

\* createTables(): CREATE TABLE IF NOT EXISTS on a new database, then
\* insertInitialConfigs; K are the other keys the table may come to hold
CreateTables(K) ==
    InsertInitialConfigs([k \in K \cup InitialConfigKeys |-> NoRow])

\* WHERE config_key = $1 AND active = true
IsActive(row) == row.exists /\ row.active

\* config_key VARCHAR(100) NOT NULL UNIQUE: an INSERT is rejected when a row
\* of the key is in the table, whatever its active flag
UniqueViolation_Never(row) == FALSE

UniqueViolation(row) == row.exists

\* ------------------------------------------- JSON.parse of a parsed column
\* the numerals among the texts below
Numerals == {ToString(n) : n \in -9..9}

\* String(x), the text JSON.parse first makes of an argument that is not a
\* text: a number's numeral, a text itself, "true", "null", "[object Object]"
\* for every object, and for an array the texts of its elements joined with
\* "," (null inside an array gives the empty text)
RECURSIVE ToText(_)
ToText(x) ==
    IF x.t = "number" THEN ToString(x.n)
    ELSE IF x.t = "string" THEN x.s
    ELSE IF x.t = "boolean" THEN (IF x.b THEN "true" ELSE "false")
    ELSE IF x.t = "null" THEN "null"
    ELSE IF x.t = "object" THEN "[object Object]"
    ELSE IF x.items = <<>> THEN ""
    ELSE LET first == IF Head(x.items).t = "null" THEN ""
                      ELSE ToText(Head(x.items))
         IN  IF Len(x.items) = 1 THEN first
             ELSE first \o "," \o ToText([x EXCEPT !.items = Tail(@)])

\* the texts above that are JSON texts: the numerals, true, false and null
IsJsonText(text) == text \in Numerals \cup {"true", "false", "null"}

\* JSON.parse(x) of a value the driver returned: the value the text of x
\* stands for, or a SyntaxError
JsonParse(x) ==
    LET text == ToText(x) IN
    IF ~IsJsonText(text) THEN [threw |-> TRUE]
    ELSE [threw |-> FALSE,
          value |-> IF text \in Numerals
                    THEN JsNumber(CHOOSE n \in -9..9 : ToString(n) = text)
                    ELSE IF text = "null" THEN [t |-> "null"]
                    ELSE [t |-> "boolean", b |-> (text = "true")]]

\* config.validation_schema is null (falsy, not parsed) or an object
SchemaParseThrows(s) == s # NoSchema /\ ~IsJsonText("[object Object]")

\* String(changeLog) of the array the driver returned for change_log
RECURSIVE ChangeLogText(_)
ChangeLogText(changeLog) ==
    IF changeLog = <<>> THEN ""
    ELSE IF Len(changeLog) = 1 THEN "[object Object]"
    ELSE "[object Object]," \o ChangeLogText(Tail(changeLog))

\* JSON.parse(change_log): an array is truthy, also when it is empty, so it
\* is parsed, and no text of an array of entries is a JSON text
ChangeLogParseThrows(changeLog) == ~IsJsonText(ChangeLogText(changeLog))

\* ConfigModel.getConfig(configKey) on the key's row: null when no active row
\* matches; else the row with config_value, validation_schema and change_log
\* replaced by their JSON.parse, and any SyntaxError is rethrown
GetConfig_NoNullReturn(row) ==
    IF ~IsActive(row) THEN "throws"
    ELSE IF \/ JsonParse(row.value).threw
            \/ SchemaParseThrows(row.validation_schema)
            \/ ChangeLogParseThrows(row.change_log)
    THEN "throws"
    ELSE "row"

GetConfig(row) ==
    IF ~IsActive(row) THEN "null"
    ELSE IF \/ JsonParse(row.value).threw
            \/ SchemaParseThrows(row.validation_schema)
            \/ ChangeLogParseThrows(row.change_log)
    THEN "throws"
    ELSE "row"

\* addToHistory(client, configId, ...): after its SELECT, JSON.parse of the
\* change_log it read; a SyntaxError is caught and logged inside addToHistory,
\* which then returns without its UPDATE
AddToHistoryThrows(changeLog) == ChangeLogParseThrows(changeLog)

\* getConfigHistory(configKey): SELECT change_log ... WHERE config_key = $1
\* (no filter on active); [] when there is no row, else JSON.parse of the
\* column, whose SyntaxError is rethrown
GetConfigHistory(row) ==
    IF ~row.exists THEN [threw |-> FALSE, log |-> <<>>]
    ELSE IF ChangeLogParseThrows(row.change_log) THEN [threw |-> TRUE]
    ELSE [threw |-> FALSE, log |-> row.change_log]

\* the rows of the keys in S as a query returns them: ORDER BY
\* config_category, config_key when byCategory, else ORDER BY config_key
RECURSIVE OrderBy(_, _, _)
OrderBy(table, S, byCategory) ==
    IF S = {} THEN <<>>
    ELSE LET first == CHOOSE x \in S : \A y \in S :
                 IF byCategory
                 THEN \/ table[x].config_category < table[y].config_category
                      \/ /\ table[x].config_category = table[y].config_category
                         /\ x <= y
                 ELSE x <= y
         IN  <<[key |-> first, row |-> table[first]]>>
                 \o OrderBy(table, S \ {first}, byCategory)

\* SELECT * ... WHERE active = true ORDER BY config_category, config_key
GetAllConfigs(table) ==
    OrderBy(table, {k \in DOMAIN table : table[k].exists /\ table[k].active},
            TRUE)

\* SELECT * ... WHERE config_category = $1 AND active = true
\* ORDER BY config_key
GetConfigsByCategory(table, category) ==
    OrderBy(table,
            {k \in DOMAIN table : /\ table[k].exists /\ table[k].active
                                  /\ table[k].config_category = category},
            FALSE)

\* SELECT * ... WHERE config_type = $1 AND active = true ORDER BY config_key
GetConfigsByType(table, type) ==
    OrderBy(table,
            {k \in DOMAIN table : /\ table[k].exists /\ table[k].active
                                  /\ table[k].config_type = type},
            FALSE)

\* result.rows.map(row => ({...row, config_value: JSON.parse(row.config_value),
\* validation_schema: row.validation_schema ? JSON.parse(...) : null})): the
\* SyntaxError of any row is rethrown; change_log is not parsed here
ParseRows(rows) ==
    IF \E i \in 1..Len(rows) : \/ JsonParse(rows[i].row.value).threw
                               \/ SchemaParseThrows(rows[i].row.validation_schema)
    THEN [threw |-> TRUE]
    ELSE [threw |-> FALSE,
          rows |-> [i \in 1..Len(rows) |->
                      [rows[i] EXCEPT !.row.value = JsonParse(@).value]]]

\* ----------------------------------------------------------------- cache
\* this.cache / this.cacheTTL: a Map iterates in insertion order and set()
\* of a present key keeps its position, so the cache is a sequence.
CacheHas(c, k) == \E i \in 1..Len(c) : c[i].key = k

CacheIdx(c, k) == CHOOSE i \in 1..Len(c) : c[i].key = k

CacheDelete(c, k) == SelectSeq(c, LAMBDA e : e.key # k)

CacheSet_MoveToEnd(c, e) == Append(CacheDelete(c, e.key), e)

CacheSet(c, e) ==
    IF CacheHas(c, e.key) THEN [c EXCEPT ![CacheIdx(c, e.key)] = e]
    ELSE Append(c, e)

AddToCache_NoEvict(c, k, row, t) ==
    CacheSet(c, [key |-> k, value |-> row.value, version |-> row.version,
                 ttl |-> t + CacheTTL])

AddToCache(c, k, row, t) ==
    LET e == [key |-> k, value |-> row.value, version |-> row.version,
              ttl |-> t + CacheTTL]
        c1 == CacheSet(c, e)
    IN  IF Len(c1) > CacheMaxSize THEN Tail(c1) ELSE c1

\* getFromCache: ttl && Date.now() < ttl
NotExpired_Inclusive(e, t) == t <= e.ttl

NotExpired(e, t) == t < e.ttl

\* clearCache(key): delete the key's entry; without a key (undefined, which
\* is Null here) clear the whole cache
ClearCache_All(c, k) == <<>>

ClearCache(c, k) == IF k # Null THEN CacheDelete(c, k) ELSE <<>>

\* ------------------------------------------------------------- validation
\* property.type, undefined when the shape has no type
TypeOf(property) ==
    IF "type" \in DOMAIN property THEN property.type ELSE "undefined"

\* a property whose shape is the JSON value null
NullProperty == [null |-> TRUE]

\* shapes with a null property: directly, and inside the items of an array
MalformedShapes ==
    {TypedShape(NullProperty),
     TypedShape([type |-> "array",
                 items |-> [type |-> "object",
                            properties |-> <<[name |-> "y",
                                              prop |-> NullProperty]>>]])}

MalformedValues == {JsObject([x |-> JsNumber(1)]), JsObject([x |-> JsNumber(2)])}

\* building the Joi schema throws: convertPropertyToJoi reads property.type,
\* a TypeError when the property is null (`items: null` is skipped by
\* `if (property.items)`)
RECURSIVE Throws(_)
Throws(property) ==
    IF property = NullProperty THEN TRUE
    ELSE IF TypeOf(property) = "object"
    THEN /\ "properties" \in DOMAIN property
         /\ \E i \in 1..Len(property.properties) :
               Throws(property.properties[i].prop)
    ELSE IF TypeOf(property) = "array"
    THEN /\ "items" \in DOMAIN property
         /\ property.items # NullProperty
         /\ Throws(property.items)
    ELSE FALSE

\* parseFloat of the texts that Joi.number() reads as a number ("1", "-1")
ParseFloat(s) == IF s = "1" THEN 1 ELSE -1

\* Joi.string(), with valid(...property.enum) when the shape has an enum:
\* a string of the enum, and without an enum any string but the empty one
JoiString(property, v) ==
    /\ v.t = "string"
    /\ IF "enum" \in DOMAIN property
       THEN \E i \in 1..Len(property.enum) : property.enum[i] = v.s
       ELSE v.s # ""

\* Joi.number() with min(minimum) and max(maximum) when the shape has them:
\* a number, or a text that reads as one (validate runs with Joi's default
\* convert: true), within the bounds
JoiNumber(property, v) ==
    /\ v.t = "number" \/ (v.t = "string" /\ v.s \in {"1", "-1"})
    /\ LET n == IF v.t = "number" THEN v.n ELSE ParseFloat(v.s)
       IN  /\ "minimum" \in DOMAIN property => n >= property.minimum
           /\ "maximum" \in DOMAIN property => n <= property.maximum

\* Joi.boolean(): a boolean, or the text 'true' or 'false'
JoiBoolean(v) ==
    v.t = "boolean" \/ (v.t = "string" /\ v.s \in {"true", "false"})

\* the paths of an error list, each inside the key or index seg
Prefix(seg, paths) == [i \in 1..Len(paths) |-> <<seg>> \o paths[i]]

\* the keys of an object that its shape does not declare
RECURSIVE UnknownKeys(_)
UnknownKeys(keys) ==
    IF keys = {} THEN <<>>
    ELSE LET k == CHOOSE x \in keys : TRUE
         IN  << <<k>> >> \o UnknownKeys(keys \ {k})

\* the Joi schema of the property is required(): convertPropertyToJoi hands
\* a property of type 'object' to convertToJoiSchema, which ends with
\* `if (jsonSchema.required) schema = schema.required()`; the schemas of the
\* other types get no presence flag
Required(property) ==
    TypeOf(property) = "object" /\ "required" \in DOMAIN property

RECURSIVE ConvertToJoiSchema(_, _)
RECURSIVE ConvertPropertyToJoi(_, _)
\* Joi.object(joiObject): the keys are validated in the order of the shape's
\* properties; a missing property passes unless its schema is required(),
\* and then its key is reported.  The result is the paths of the properties
\* that are rejected.
RECURSIVE LeafErrors(_, _)
LeafErrors(properties, fields) ==
    IF properties = <<>> THEN <<>>
    ELSE LET h == Head(properties)
         IN  (IF h.name \in DOMAIN fields
              THEN Prefix(h.name, ConvertPropertyToJoi(h.prop, fields[h.name]))
              ELSE IF Required(h.prop) THEN << <<h.name>> >>
              ELSE <<>>)
                 \o LeafErrors(Tail(properties), fields)

\* Joi.array().items(schema): every element against the item shape, the
\* path of an element is its index; when the item schema is required() the
\* array must hold an element it accepts, else the array itself is reported
\* after its elements
RECURSIVE ItemErrors(_, _, _)
ItemErrors(items, list, i) ==
    IF i > Len(list)
    THEN IF /\ Required(items)
            /\ \A j \in 1..Len(list) :
                  ConvertPropertyToJoi(items, list[j]) # <<>>
         THEN << <<>> >>
         ELSE <<>>
    ELSE Prefix(ToString(i - 1), ConvertPropertyToJoi(items, list[i]))
             \o ItemErrors(items, list, i + 1)

\* convertToJoiSchema(jsonSchema) applied to v: the error paths of the schema.
\* For type 'object': Joi.object(joiObject) takes an object, checks the
\* declared keys and refuses any other key.
\* `if (jsonSchema.required) schema = schema.required()` only forbids an
\* undefined value: v is never undefined here, the absent property and the
\* array without an accepted element are dealt with where they occur
\* (LeafErrors, ItemErrors).
ConvertToJoiSchema(jsonSchema, v) ==
    IF TypeOf(jsonSchema) = "object"
    THEN IF v.t # "object" THEN << <<>> >>
         ELSE LET properties == IF "properties" \in DOMAIN jsonSchema
                                THEN jsonSchema.properties ELSE <<>>
                  declared == {properties[i].name : i \in 1..Len(properties)}
              IN  LeafErrors(properties, v.fields)
                      \o UnknownKeys(DOMAIN v.fields \ declared)
    ELSE ConvertPropertyToJoi(jsonSchema, v)

\* convertPropertyToJoi(property) applied to v: the switch on property.type
ConvertPropertyToJoi(property, v) ==
    IF TypeOf(property) = "string"
    THEN IF JoiString(property, v) THEN <<>> ELSE << <<>> >>
    ELSE IF TypeOf(property) = "number"
    THEN IF JoiNumber(property, v) THEN <<>> ELSE << <<>> >>
    ELSE IF TypeOf(property) = "boolean"
    THEN IF JoiBoolean(v) THEN <<>> ELSE << <<>> >>
    ELSE IF TypeOf(property) = "array"
    THEN IF v.t # "array" THEN << <<>> >>
         ELSE IF "items" \in DOMAIN property /\ property.items # NullProperty
         THEN ItemErrors(property.items, v.items, 1)
         ELSE <<>>
    ELSE IF TypeOf(property) = "object"
    THEN ConvertToJoiSchema(property, v)
    ELSE <<>>

\* the value schema.validate returns for an accepted v: texts taken as a
\* number or a boolean are replaced by that number or boolean
RECURSIVE Converted(_, _)
Converted(property, v) ==
    IF TypeOf(property) = "number" /\ v.t = "string"
    THEN JsNumber(ParseFloat(v.s))
    ELSE IF TypeOf(property) = "boolean" /\ v.t = "string"
    THEN [t |-> "boolean", b |-> (v.s = "true")]
    ELSE IF /\ TypeOf(property) = "array"
            /\ "items" \in DOMAIN property /\ property.items # NullProperty
    THEN [t |-> "array",
          items |-> [i \in 1..Len(v.items) |->
                        Converted(property.items, v.items[i])]]
    ELSE IF TypeOf(property) = "object" /\ "properties" \in DOMAIN property
    THEN JsObject([n \in DOMAIN v.fields |->
                     LET i == CHOOSE j \in 1..Len(property.properties) :
                                  property.properties[j].name = n
                     IN  Converted(property.properties[i].prop, v.fields[n])])
    ELSE v

\* schema.validate(configValue) is called without options, so Joi stops at
\* the first error (abortEarly): error.details has one element
AbortEarly(errors) == IF errors = <<>> THEN <<>> ELSE <<Head(errors)>>

\* detail.path.join('.')
RECURSIVE Join(_)
Join(path) ==
    IF path = <<>> THEN ""
    ELSE IF Len(path) = 1 THEN Head(path)
    ELSE Head(path) \o "." \o Join(Tail(path))

\* validateConfig without its try/catch: an error thrown while the schema is
\* built leaves the method
ValidateConfigResult_NoCatch(configValue, validationSchema) ==
    IF validationSchema = NoSchema THEN [valid |-> TRUE]
    ELSE IF Throws(validationSchema)
    THEN [valid |-> FALSE, threw |-> TRUE, errors |-> <<>>]
    ELSE LET v == configValue
             errors == AbortEarly(ConvertToJoiSchema(validationSchema, v))
         IN  IF errors # <<>>
             THEN [valid |-> FALSE,
                   errors |-> [i \in 1..Len(errors) |-> Join(errors[i])]]
             ELSE [valid |-> TRUE, value |-> Converted(validationSchema, v)]

\* validateConfig(configValue, validationSchema): {valid: true} without a
\* schema, {valid: false, errors} with the fields of error.details or, when
\* anything throws, the one field 'schema', else {valid: true, value}
ValidateConfigResult(configValue, validationSchema) ==
    IF validationSchema = NoSchema THEN [valid |-> TRUE]
    ELSE IF Throws(validationSchema)
    THEN [valid |-> FALSE, errors |-> <<"schema">>]
    ELSE LET v == configValue
             errors == AbortEarly(ConvertToJoiSchema(validationSchema, v))
         IN  IF errors # <<>>
             THEN [valid |-> FALSE,
                   errors |-> [i \in 1..Len(errors) |-> Join(errors[i])]]
             ELSE [valid |-> TRUE, value |-> Converted(validationSchema, v)]

\* validateConfig(configValue, validationSchema).errors, as field paths
ValidationErrors(configValue, validationSchema) ==
    LET result == ValidateConfigResult(configValue, validationSchema)
    IN  IF result.valid THEN <<>> ELSE result.errors

ValidateConfig_Accept(configValue, validationSchema) == TRUE

\* validateConfig(configValue, validationSchema).valid
ValidateConfig(configValue, validationSchema) ==
    ValidateConfigResult(configValue, validationSchema).valid

\* -------------------------------------------------------------- requests
Entry(row) == [value |-> row.value, version |-> row.version]

NoEntry == [value |-> NoValue, version |-> 0]

Returned(op, entry) == [op |-> op, version |-> entry.version]

NoCall == [value |-> NoValue, raw |-> FALSE, op |-> "none", ver |-> 0]

IdleProc == [pc |-> "idle", op |-> "none", key |-> 0, val |-> NoValue,
             sch |-> NoSchema, res |-> "none", ret |-> NoEntry, errs |-> <<>>,
             out |-> [none |-> TRUE]]

VARIABLES
    db,         \* key -> committed row of system_configurations
    cache,      \* ConfigService.cache with cacheTTL, in insertion order
    now,        \* Date.now(), in units of the cache TTL granularity
    pr,         \* request -> its position and locals
    budget,     \* number of requests that may still start
    svcSubs,    \* ConfigService.subscribers: key -> set of callbacks
    published,  \* key -> the latest notifySubscribers call for it
    sock,       \* socket -> "new", "open" (in io.sockets.sockets) or "closed"
    subscribers,          \* ConfigNotifier.subscribers: key -> socket ids
    socketSubscriptions,  \* ConfigNotifier.socketSubscriptions
    inbox,      \* socket -> the config_changed events emitted to it
    fullLog,    \* key -> the change event of every committed mutation
    returned    \* key -> the mutating calls that returned, with their version

storeVars == <<db>>
busVars == <<svcSubs, published, sock, subscribers, socketSubscriptions, inbox>>
regVars == <<sock, subscribers, socketSubscriptions>>
ghostVars == <<fullLog, returned>>
vars == <<db, cache, now, pr, budget, svcSubs, published, sock, subscribers,
          socketSubscriptions, inbox, fullLog, returned>>

\* the state after the start of the application (createTables, then the
\* constructors), for the keys K that requests may use, the sockets S and n
\* requests that may start: the table of createTables, an empty cache,
\* nothing registered
InitWith(K, S, n) ==
    /\ db = CreateTables(K)
    /\ cache = <<>>
    /\ now = 0
    /\ pr = [p \in Procs |-> IdleProc]
    /\ budget = n
    /\ svcSubs = <<>>
    /\ published = [k \in K \cup InitialConfigKeys |-> NoCall]
    /\ sock = [s \in S |-> "new"]
    /\ subscribers = <<>>
    /\ socketSubscriptions = <<>>
    /\ inbox = [s \in S |-> <<>>]
    /\ fullLog = [k \in K \cup InitialConfigKeys |-> <<>>]
    /\ returned = [k \in K \cup InitialConfigKeys |-> {}]

Init == InitWith(Keys, Sockets, MaxOps)

Free(p) == pr[p].pc \in {"idle", "done"}

\* a new request takes the lowest free slot (requests are interchangeable)
CanStart(p) ==
    /\ Free(p)
    /\ \A q \in Procs : q < p => ~Free(q)
    /\ budget > 0

Quiescent == \A q \in Procs : Free(q)

Begin(p, op, k, v, s) ==
    [IdleProc EXCEPT !.op = op, !.key = k, !.val = v, !.sch = s]

\* the call has returned: what it was called with and its outcome stay
\* visible
Done(rec, res) ==
    [rec EXCEPT !.pc = "done", !.res = res]

\* ------------------------------------------------- socket registry
Connected == {s \in DOMAIN sock : sock[s] = "open"}

\* subscribeSocket(socketId, configKey)
SubscribeSocket(reg, s, k) ==
    [subs |-> MapSet(reg.subs, k, MapGet(reg.subs, k, {}) \cup {s}),
     socks |-> MapSet(reg.socks, s, MapGet(reg.socks, s, {}) \cup {k})]

\* unsubscribeSocket(socketId, configKey)
UnsubscribeSocket_OneSided(reg, s, k) ==
    [subs |-> IF k \in DOMAIN reg.subs
              THEN IF reg.subs[k] \ {s} = {}
                   THEN MapDelete(reg.subs, k)
                   ELSE MapSet(reg.subs, k, reg.subs[k] \ {s})
              ELSE reg.subs,
     socks |-> reg.socks]

UnsubscribeSocket_DropsSocket(reg, s, k) ==
    [subs |-> IF k \in DOMAIN reg.subs
              THEN IF reg.subs[k] \ {s} = {}
                   THEN MapDelete(reg.subs, k)
                   ELSE MapSet(reg.subs, k, reg.subs[k] \ {s})
              ELSE reg.subs,
     socks |-> MapDelete(reg.socks, s)]

UnsubscribeSocket_KeepsEmptySet(reg, s, k) ==
    [subs |-> IF k \in DOMAIN reg.subs
              THEN MapSet(reg.subs, k, reg.subs[k] \ {s})
              ELSE reg.subs,
     socks |-> IF s \in DOMAIN reg.socks
               THEN MapSet(reg.socks, s, reg.socks[s] \ {k})
               ELSE reg.socks]

UnsubscribeSocket(reg, s, k) ==
    [subs |-> IF k \in DOMAIN reg.subs
              THEN IF reg.subs[k] \ {s} = {}
                   THEN MapDelete(reg.subs, k)
                   ELSE MapSet(reg.subs, k, reg.subs[k] \ {s})
              ELSE reg.subs,
     socks |-> IF s \in DOMAIN reg.socks
               THEN MapSet(reg.socks, s, reg.socks[s] \ {k})
               ELSE reg.socks]

\* cleanupSocket(socketId)
CleanupSocket_KeepsInterest(reg, s) ==
    [subs |-> reg.subs, socks |-> MapDelete(reg.socks, s)]

CleanupSocket(reg, s) ==
    LET mine == MapGet(reg.socks, s, {}) IN
    [subs |-> [k \in {x \in DOMAIN reg.subs :
                        ~(x \in mine /\ reg.subs[x] \ {s} = {})} |->
                 IF k \in mine THEN reg.subs[k] \ {s} ELSE reg.subs[k]],
     socks |-> MapDelete(reg.socks, s)]

UnsubscribeAll_Noop(reg, ss, k) == reg

RECURSIVE UnsubscribeAll(_, _, _)
UnsubscribeAll(reg, ss, k) ==
    IF ss = {} THEN reg
    ELSE LET s == CHOOSE x \in ss : TRUE
         IN  UnsubscribeAll(UnsubscribeSocket(reg, s, k), ss \ {s}, k)

Registry == [subs |-> subscribers, socks |-> socketSubscriptions]

\* getStats(): totalSubscriptions adds up the sizes of the key sets of
\* socketSubscriptions, which is the number of (socket, key) pairs in it
GetStats ==
    [connectedClients |-> Cardinality(Connected),
     totalSubscriptions |->
         Cardinality(UNION {{<<s, k>> : k \in socketSubscriptions[s]} :
                               s \in DOMAIN socketSubscriptions}),
     uniqueConfigs |-> Cardinality(DOMAIN subscribers),
     subscriptionsByConfig |->
         [k \in DOMAIN subscribers |-> Cardinality(subscribers[k])]]

\* notifyConfigChange(configKey, newValue, action = 'UPDATE') on notifier n
\* (its two indexes and the events it has emitted):
\* emit to every subscribed socket that still exists, unsubscribe the others;
\* an action that is not given ("undefined") takes the default
Notified(n, k, v, raw, action) ==
    LET targets == MapGet(n.subs, k, {})
        live == targets \cap Connected
        reg == UnsubscribeAll([subs |-> n.subs, socks |-> n.socks],
                              targets \ Connected, k)
        evt == [key |-> k, value |-> v, raw |-> raw,
                action |-> IF action = "undefined" THEN "UPDATE" ELSE action]
    IN  [subs |-> reg.subs, socks |-> reg.socks,
         inbox |-> [s \in DOMAIN n.inbox |->
                      IF s \in live THEN Append(n.inbox[s], evt)
                      ELSE n.inbox[s]]]

\* notifyMultipleChanges(changes) on notifier n: notifyConfigChange(change.key,
\* change.value, change.action) for each change in turn
RECURSIVE NotifiedAll(_, _)
NotifiedAll(n, changes) ==
    IF changes = <<>> THEN n
    ELSE NotifiedAll(Notified(n, Head(changes).key, Head(changes).value, FALSE,
                              Head(changes).action),
                     Tail(changes))

NotifyConfigChange(k, v, raw, action) ==
    LET n == Notified([subs |-> subscribers, socks |-> socketSubscriptions,
                       inbox |-> inbox], k, v, raw, action)
    IN  /\ inbox' = n.inbox
        /\ subscribers' = n.subs
        /\ socketSubscriptions' = n.socks

\* the callback app.js builds in setupConfigNotifications; it is handed to
\* configService.subscribe only inside a wrapper that nothing calls
BridgeCallback == "notifyCallback"

\* a subscriber callback that throws when it is called
ThrowingCallback == "throwingCallback"

Callbacks == {BridgeCallback, ThrowingCallback}

\* ConfigService.subscribe(configKey, callback)
SvcSubscribe(m, k, cb) == MapSet(m, k, MapGet(m, k, {}) \cup {cb})

\* ConfigService.unsubscribe(configKey, callback)
SvcUnsubscribe(m, k, cb) ==
    IF k \in DOMAIN m THEN MapSet(m, k, m[k] \ {cb}) ELSE m

\* notifySubscribers(configKey, newValue): call every callback of the key,
\* each inside its own try/catch
\* (raw: the value is the text of a JSON column and not its parsed value; the
\*  driver parses the columns, so no call passes a text;
\*  op and ver tag the call for the record, the callbacks do not get them)
NotifySubscribers_NoCatch(k, v, raw, op, ver) ==
    /\ published' = [published EXCEPT
                       ![k] = [value |-> v, raw |-> raw, op |-> op, ver |-> ver]]
    /\ IF /\ BridgeCallback \in MapGet(svcSubs, k, {})
          /\ ThrowingCallback \notin MapGet(svcSubs, k, {})
       THEN NotifyConfigChange(k, v, raw, "undefined")
       ELSE UNCHANGED <<subscribers, socketSubscriptions, inbox>>
    /\ UNCHANGED <<svcSubs, sock>>

NotifySubscribers(k, v, raw, op, ver) ==
    /\ published' = [published EXCEPT
                       ![k] = [value |-> v, raw |-> raw, op |-> op, ver |-> ver]]
    /\ IF BridgeCallback \in MapGet(svcSubs, k, {})
       THEN NotifyConfigChange(k, v, raw, "undefined")
       ELSE UNCHANGED <<subscribers, socketSubscriptions, inbox>>
    /\ UNCHANGED <<svcSubs, sock>>

\* ------------------------------------------------- POST /config/validate
\* configController.validateConfig: the result of configService.validateConfig
\* is the response; the controller answers an exception with status 500
ValidateCall(p, v, s) ==
    LET result == ValidateConfigResult(v, s) IN
    /\ CanStart(p)
    /\ budget' = budget - 1
    /\ pr' = [pr EXCEPT ![p] =
                 Done([Begin(p, "validate", 0, v, s) EXCEPT
                         !.errs = IF result.valid THEN <<>> ELSE result.errors,
                         !.out = result],
                      IF "threw" \in DOMAIN result THEN "error"
                      ELSE IF result.valid THEN "valid" ELSE "invalid")]
    /\ UNCHANGED <<storeVars, cache, now, busVars, ghostVars>>

\* --------------------------------------------- createConfig (no transaction)
\* createConfig whose INSERT writes over the row of a key that has one
\* (ON CONFLICT ... DO UPDATE) before the duplicate is reported
CreateInsertCore_Upsert(p, k, v, s, type, category) ==
    /\ CanStart(p)
    /\ budget' = budget - 1
    /\ IF ~ValidateConfig(v, s)
       THEN \* validation failed: thrown before the model is called
            /\ pr' = [pr EXCEPT ![p] =
                         Done([Begin(p, "create", k, v, s) EXCEPT
                                 !.errs = ValidationErrors(v, s)], "invalid")]
            /\ UNCHANGED <<db, fullLog>>
       ELSE IF UniqueViolation(db[k])
       THEN /\ db' = [db EXCEPT ![k].value = v, ![k].version = @ + 1]
            /\ pr' = [pr EXCEPT ![p] =
                         Done(Begin(p, "create", k, v, s), "duplicate")]
            /\ UNCHANGED fullLog
       ELSE /\ db' = [db EXCEPT ![k] = SqlInsertWith(v, s, type, category)]
            /\ fullLog' = [fullLog EXCEPT
                             ![k] = Append(@, NewEntry("CREATE", Null, v))]
            /\ pr' = [pr EXCEPT ![p] =
                         [Begin(p, "create", k, v, s) EXCEPT
                            !.pc = "c_hsel",
                            !.ret = Entry(SqlInsertWith(v, s, type, category))]]
    /\ UNCHANGED <<cache, now, returned>>

\* ConfigService.createConfig up to the end of the INSERT of
\* ConfigModel.createConfig: validateConfig, then INSERT ... RETURNING *
CreateInsertCore(p, k, v, s, type, category) ==
    /\ CanStart(p)
    /\ budget' = budget - 1
    /\ IF ~ValidateConfig(v, s)
       THEN \* validation failed: thrown before the model is called
            /\ pr' = [pr EXCEPT ![p] =
                         Done([Begin(p, "create", k, v, s) EXCEPT
                                 !.errs = ValidationErrors(v, s)], "invalid")]
            /\ UNCHANGED <<db, fullLog>>
       ELSE IF UniqueViolation(db[k])
       THEN \* config_key is UNIQUE: the INSERT is rejected
            /\ pr' = [pr EXCEPT ![p] =
                         Done(Begin(p, "create", k, v, s), "duplicate")]
            /\ UNCHANGED <<db, fullLog>>
       ELSE /\ db' = [db EXCEPT ![k] = SqlInsertWith(v, s, type, category)]
            /\ fullLog' = [fullLog EXCEPT
                             ![k] = Append(@, NewEntry("CREATE", Null, v))]
            /\ pr' = [pr EXCEPT ![p] =
                         [Begin(p, "create", k, v, s) EXCEPT
                            !.pc = "c_hsel",
                            !.ret = Entry(SqlInsertWith(v, s, type, category))]]
    /\ UNCHANGED <<cache, now, returned>>

\* createConfig with the notification moved before the INSERT
CreateInsert_NotifyFirst(p, k, v, s) ==
    /\ CreateInsertCore(p, k, v, s, "system", 1)
    /\ published' = [published EXCEPT
                       ![k] = [value |-> v, raw |-> FALSE, op |-> "create",
                               ver |-> 1]]
    /\ UNCHANGED <<svcSubs, sock, subscribers, socketSubscriptions, inbox>>

\* createConfig({config_key: k, config_value: v, validation_schema: s, ...})
CreateInsert(p, k, v, s) ==
    /\ CreateInsertCore(p, k, v, s, "system", 1)
    /\ UNCHANGED busVars

\* createConfig with config_type and config_category given
CreateInsertWith(p, k, v, s, type, category) ==
    /\ CreateInsertCore(p, k, v, s, type, category)
    /\ UNCHANGED busVars

\* addToHistory without its try/catch: the SyntaxError leaves createConfig
CreateHistSelect_Propagates(p) ==
    /\ pr[p].pc = "c_hsel"
    /\ pr' = [pr EXCEPT ![p] =
                 IF AddToHistoryThrows(db[pr[p].key].change_log)
                 THEN Done(@, "error")
                 ELSE [@ EXCEPT !.pc = "c_hupd"]]
    /\ UNCHANGED <<storeVars, cache, now, budget, busVars, ghostVars>>

\* addToHistory(client, id, 'CREATE', null, value, createdBy): SELECT
\* change_log ... WHERE id = $1 and JSON.parse of what it returned; the
\* SyntaxError is swallowed, nothing is written and createConfig goes on
\* (a change_log that parsed would be written by the UPDATE that follows)
CreateHistSelect(p) ==
    /\ pr[p].pc = "c_hsel"
    /\ pr' = [pr EXCEPT ![p].pc =
                 IF AddToHistoryThrows(db[pr[p].key].change_log) THEN "c_ret"
                 ELSE "c_hupd"]
    /\ UNCHANGED <<storeVars, cache, now, budget, busVars, ghostVars>>

\* back in ConfigService.createConfig with the row the INSERT returned:
\* clearCache(key), notifySubscribers(key, config.config_value), return
CreateReturn(p) ==
    LET k == pr[p].key IN
    /\ pr[p].pc = "c_ret"
    /\ cache' = ClearCache(cache, k)
    /\ NotifySubscribers(k, pr[p].ret.value, FALSE, "create", pr[p].ret.version)
    /\ returned' = [returned EXCEPT ![k] = @ \cup {Returned("create", pr[p].ret)}]
    /\ pr' = [pr EXCEPT ![p] = Done(@, "ok")]
    /\ UNCHANGED <<storeVars, now, budget, fullLog>>

\* ------------------------------------------------------------ updateConfig
\* ConfigService.updateConfig(k, {config_value: v, validation_schema: s}):
\* const currentConfig = await this.configModel.getConfig(configKey); null
\* ends the call with 'not found', a SyntaxError with that error, and a row
\* would be validated next
UpdateSvcGet(p, k, v, s) ==
    /\ CanStart(p)
    /\ budget' = budget - 1
    /\ pr' = [pr EXCEPT ![p] =
                 IF GetConfig(db[k]) = "null"
                 THEN Done(Begin(p, "update", k, v, s), "notfound")
                 ELSE IF GetConfig(db[k]) = "throws"
                 THEN Done(Begin(p, "update", k, v, s), "error")
                 ELSE [Begin(p, "update", k, v, s) EXCEPT !.pc = "u_validate"]]
    /\ UNCHANGED <<storeVars, cache, now, busVars, ghostVars>>

\* ------------------------------------------------------------ deleteConfig
\* ConfigModel.deleteConfig(k): BEGIN, then getConfig(configKey); null and a
\* SyntaxError both end in ROLLBACK and leave the call ('not found', or the
\* error), a row would be soft-deleted next
DeleteGet(p, k) ==
    /\ CanStart(p)
    /\ budget' = budget - 1
    /\ pr' = [pr EXCEPT ![p] =
                 IF GetConfig(db[k]) = "null"
                 THEN Done(Begin(p, "delete", k, NoValue, NoSchema), "notfound")
                 ELSE IF GetConfig(db[k]) = "throws"
                 THEN Done(Begin(p, "delete", k, NoValue, NoSchema), "error")
                 ELSE [Begin(p, "delete", k, NoValue, NoSchema) EXCEPT
                         !.pc = "d_update"]]
    /\ UNCHANGED <<storeVars, cache, now, busVars, ghostVars>>

\* --------------------------------------------------------------- getConfig
\* ConfigService.getConfig up to its await: getFromCache
GetCache(p, k) ==
    /\ CanStart(p)
    /\ budget' = budget - 1
    /\ IF CacheHas(cache, k)
       THEN LET e == cache[CacheIdx(cache, k)] IN
            IF NotExpired(e, now)
            THEN /\ pr' = [pr EXCEPT ![p] =
                             Done([Begin(p, "get", k, NoValue, NoSchema) EXCEPT
                                     !.ret = Entry(e)], "hit")]
                 /\ UNCHANGED cache
            ELSE /\ cache' = CacheDelete(cache, k)
                 /\ pr' = [pr EXCEPT ![p] =
                             [Begin(p, "get", k, NoValue, NoSchema) EXCEPT
                                !.pc = "g_db"]]
       ELSE /\ pr' = [pr EXCEPT ![p] =
                        [Begin(p, "get", k, NoValue, NoSchema) EXCEPT
                           !.pc = "g_db"]]
            /\ UNCHANGED cache
    /\ UNCHANGED <<storeVars, now, busVars, ghostVars>>

\* ConfigModel.getConfig and the return of ConfigService.getConfig: null is
\* returned as it is, a SyntaxError is rethrown, and a row would be put in
\* the cache next
GetDb(p) ==
    LET k == pr[p].key IN
    /\ pr[p].pc = "g_db"
    /\ pr' = [pr EXCEPT ![p] =
                 IF GetConfig(db[k]) = "null" THEN Done(@, "notfound")
                 ELSE IF GetConfig(db[k]) = "throws" THEN Done(@, "error")
                 ELSE [@ EXCEPT !.ret = Entry(db[k]), !.pc = "g_fill"]]
    /\ UNCHANGED <<storeVars, cache, now, budget, busVars, ghostVars>>

\* addToCache(key, config) called on the service (the method is public)
AddToCacheCall(k, entry) ==
    /\ budget > 0
    /\ budget' = budget - 1
    /\ cache' = AddToCache(cache, k, entry, now)
    /\ UNCHANGED <<storeVars, now, pr, busVars, ghostVars>>

\* -------------------------------------------------------- getConfigHistory
\* ConfigService.getConfigHistory -> ConfigModel.getConfigHistory
GetHistoryCall(p, k) ==
    LET result == GetConfigHistory(db[k]) IN
    /\ CanStart(p)
    /\ budget' = budget - 1
    /\ pr' = [pr EXCEPT ![p] =
                 Done([Begin(p, "history", k, NoValue, NoSchema) EXCEPT
                         !.out = result],
                      IF result.threw THEN "error" ELSE "ok")]
    /\ UNCHANGED <<storeVars, cache, now, busVars, ghostVars>>

\* --------------------------------- getAllConfigs, getConfigsBy...
\* ConfigService.getAllConfigs / getConfigsByCategory / getConfigsByType ->
\* ConfigModel: the one SELECT of the query q and the map over its rows
ListCall(p, q) ==
    LET result == ParseRows(IF q.by = "all" THEN GetAllConfigs(db)
                            ELSE IF q.by = "category"
                            THEN GetConfigsByCategory(db, q.arg)
                            ELSE GetConfigsByType(db, q.arg))
    IN
    /\ CanStart(p)
    /\ budget' = budget - 1
    /\ pr' = [pr EXCEPT ![p] =
                 Done([Begin(p, "list", 0, NoValue, NoSchema) EXCEPT
                         !.out = IF result.threw
                                 THEN [query |-> q, threw |-> TRUE]
                                 ELSE [query |-> q, threw |-> FALSE,
                                       rows |-> result.rows]],
                      IF result.threw THEN "error" ELSE "ok")]
    /\ UNCHANGED <<storeVars, cache, now, busVars, ghostVars>>

\* ------------------------------------------------ DELETE /cache/:key?
\* configController.clearCache: configService.clearCache(req.params.key);
\* k is Null when the route is called without a key.  The request has no
\* await, so it is one step and needs no slot of pr.
ClearCacheCall(k) ==
    /\ budget > 0
    /\ budget' = budget - 1
    /\ cache' = ClearCache(cache, k)
    /\ UNCHANGED <<storeVars, now, pr, busVars, ghostVars>>

\* ------------------------------------------------ socket.io connections
\* io.on('connection'): socketSubscriptions.set(socket.id, new Set())
Connect(s) ==
    /\ sock[s] = "new"
    /\ \A t \in DOMAIN sock : t < s => sock[t] # "new"
    /\ sock' = [sock EXCEPT ![s] = "open"]
    /\ socketSubscriptions' = MapSet(socketSubscriptions, s, {})
    /\ UNCHANGED <<storeVars, cache, now, pr, budget, svcSubs, published,
                   subscribers, inbox, ghostVars>>

\* socket.on('subscribe', {keys: [k]})
SocketSubscribe(s, k) ==
    /\ sock[s] = "open"
    /\ subscribers' = SubscribeSocket(Registry, s, k).subs
    /\ socketSubscriptions' = SubscribeSocket(Registry, s, k).socks
    /\ UNCHANGED <<storeVars, cache, now, pr, budget, svcSubs, published, sock,
                   inbox, ghostVars>>

\* socket.on('unsubscribe', {keys: [k]})
SocketUnsubscribe(s, k) ==
    /\ sock[s] = "open"
    /\ subscribers' = UnsubscribeSocket(Registry, s, k).subs
    /\ socketSubscriptions' = UnsubscribeSocket(Registry, s, k).socks
    /\ UNCHANGED <<storeVars, cache, now, pr, budget, svcSubs, published, sock,
                   inbox, ghostVars>>

\* socket.on('disconnect'): the socket has left io.sockets.sockets
Disconnect(s) ==
    /\ sock[s] = "open"
    /\ sock' = [sock EXCEPT ![s] = "closed"]
    /\ subscribers' = CleanupSocket(Registry, s).subs
    /\ socketSubscriptions' = CleanupSocket(Registry, s).socks
    /\ UNCHANGED <<storeVars, cache, now, pr, budget, svcSubs, published, inbox,
                   ghostVars>>

\* subscribeSocket(socketId, configKey) called with the id of a connection
\* that is gone (the method is public; it does not look the socket up)
SubscribeSocketCall(s, k) ==
    /\ sock[s] = "closed"
    /\ subscribers' = SubscribeSocket(Registry, s, k).subs
    /\ socketSubscriptions' = SubscribeSocket(Registry, s, k).socks
    /\ UNCHANGED <<storeVars, cache, now, pr, budget, svcSubs, published, sock,
                   inbox, ghostVars>>

\* notifyConfigChange(configKey, newValue, action) called on the notifier;
\* action is "undefined" when the call has two arguments
Publish(k, v, action) ==
    /\ budget > 0
    /\ budget' = budget - 1
    /\ NotifyConfigChange(k, v, FALSE, action)
    /\ UNCHANGED <<storeVars, cache, now, pr, svcSubs, published, sock,
                   ghostVars>>

\* notifyMultipleChanges(changes) called on the notifier
NotifyMultipleChanges(changes) ==
    /\ budget > 0
    /\ budget' = budget - 1
    /\ LET n == NotifiedAll([subs |-> subscribers,
                              socks |-> socketSubscriptions,
                              inbox |-> inbox], changes)
       IN  /\ inbox' = n.inbox
           /\ subscribers' = n.subs
           /\ socketSubscriptions' = n.socks
    /\ UNCHANGED <<storeVars, cache, now, pr, svcSubs, published, sock,
                   ghostVars>>

\* broadcast(event, data): io.emit to every connected socket, subscribed or
\* not; inbox keeps the config_changed events, data as it was passed (an
\* action it does not carry is "undefined")
Broadcast(event, data) ==
    /\ budget > 0
    /\ budget' = budget - 1
    /\ inbox' = [s \in DOMAIN inbox |->
                    IF s \in Connected /\ event = "config_changed"
                    THEN Append(inbox[s], data) ELSE inbox[s]]
    /\ UNCHANGED <<storeVars, cache, now, pr, svcSubs, published, sock,
                   subscribers, socketSubscriptions, ghostVars>>

\* configService.subscribe(configKey, callback)
ServiceSubscribe(k, cb) ==
    /\ svcSubs' = SvcSubscribe(svcSubs, k, cb)
    /\ UNCHANGED <<storeVars, cache, now, pr, budget, published, regVars, inbox,
                   ghostVars>>

\* configService.unsubscribe(configKey, callback)
ServiceUnsubscribe(k, cb) ==
    /\ svcSubs' = SvcUnsubscribe(svcSubs, k, cb)
    /\ UNCHANGED <<storeVars, cache, now, pr, budget, published, regVars, inbox,
                   ghostVars>>

\* ------------------------------------------------------------------- time
Tick ==
    /\ now < MaxTime
    /\ now' = now + 1
    /\ UNCHANGED <<storeVars, cache, pr, budget, busVars, ghostVars>>

\* one more unit of time, so that a lookup also falls after an expiry instant
LateTick ==
    /\ now = MaxTime
    /\ now' = now + 1
    /\ UNCHANGED <<storeVars, cache, pr, budget, busVars, ghostVars>>

\* the steps of a request after its first await
Step(p) ==
    \/ CreateHistSelect(p)
    \/ CreateReturn(p)
    \/ GetDb(p)

\* the keys of the calls: a key of the requests' own and two of the keys of
\* insertInitialConfigs (cpa_level_amounts, cpa_validation_rules)
CallKeys == Keys \cup {11, 12}

\* the calls of a request; S is the set of validation schemas they may carry
CallWith(p, S) ==
    \/ \E k \in CallKeys, v \in Values, s \in S : CreateInsert(p, k, v, s)
    \/ \E k \in CallKeys, v \in Values, s \in S : UpdateSvcGet(p, k, v, s)
    \/ \E k \in CallKeys : DeleteGet(p, k)
    \/ \E k \in CallKeys : GetCache(p, k)
    \/ \E k \in CallKeys : GetHistoryCall(p, k)

\* the application's stored entries carry no schema unless a call supplies one
Call(p) == CallWith(p, {NoSchema})

SocketEvent ==
    \/ \E s \in Sockets : Connect(s)
    \/ \E s \in Sockets, k \in Keys : SocketSubscribe(s, k)
    \/ \E s \in Sockets, k \in Keys : SocketUnsubscribe(s, k)
    \/ \E s \in Sockets : Disconnect(s)

Next ==
    \/ \E p \in Procs : Call(p)
    \/ \E p \in Procs : Step(p)
    \/ SocketEvent
    \/ Tick

Spec == Init /\ [][Next]_vars

\* the store operations alone: no socket events, no passage of time
StoreNext ==
    \/ \E p \in Procs : Call(p)
    \/ \E p \in Procs : Step(p)

StoreSpec == Init /\ [][StoreNext]_vars

\* a shape with a "required" list as the shape of a property and as the
\* item shape of an array
RequiredObject ==
    [type |-> "object",
     properties |-> <<Property("y", [type |-> "number", minimum |-> 0,
                                     maximum |-> 2])>>,
     required |-> <<"y">>]

\* values and schemas for POST /config/validate: each value of
\* insertInitialConfigs with its schema, cpa_validation_rules without a
\* group, and an absent property and an empty array under RequiredObject
PresenceCases ==
    {[value |-> InitialConfigs(k).config_value,
      schema |-> InitialConfigs(k).validation_schema] : k \in InitialConfigKeys}
    \cup
    {[value |-> JsObject([groups |-> JsArray(<<>>),
                          group_operator |-> JsString("OR")]),
      schema |-> InitialConfigs(12).validation_schema],
     [value |-> JsObject(<<>>),
      schema |-> [type |-> "object",
                  properties |-> <<Property("x", RequiredObject)>>]],
     [value |-> JsObject([x |-> JsArray(<<>>)]),
      schema |-> [type |-> "object",
                  properties |->
                      <<Property("x", [type |-> "array",
                                       items |-> RequiredObject])>>]],
     [value |-> JsObject([x |-> JsArray(<<JsObject([y |-> JsNumber(1)])>>)]),
      schema |-> [type |-> "object",
                  properties |->
                      <<Property("x", [type |-> "array",
                                       items |-> RequiredObject])>>]]}

\* the store operations with validation schemas on creates and updates, and
\* the validation of values against schemas with nested "required" lists
ValNext ==
    \/ \E p \in Procs : CallWith(p, Schemas)
    \/ \E p \in Procs : Step(p)
    \/ \E p \in Procs, c \in PresenceCases : ValidateCall(p, c.value, c.schema)

ValSpec == Init /\ [][ValNext]_vars

\* the notifier and the callback registry driven through their methods and
\* socket events, with two sockets and two keys
RegInit == InitWith(Keys, RegSockets, MaxPublish)

RegNext ==
    \/ \E s \in RegSockets : Connect(s)
    \/ \E s \in RegSockets, k \in RegKeys : SocketSubscribe(s, k)
    \/ \E s \in RegSockets, k \in RegKeys : SocketUnsubscribe(s, k)
    \/ \E s \in RegSockets : Disconnect(s)
    \/ \E s \in RegSockets, k \in RegKeys : SubscribeSocketCall(s, k)
    \/ \E k \in RegKeys : Publish(k, 1, "undefined")
    \/ \E k \in Keys, cb \in Callbacks : ServiceSubscribe(k, cb)
    \/ \E k \in Keys, cb \in Callbacks : ServiceUnsubscribe(k, cb)

RegistrySpec == RegInit /\ [][RegNext]_vars

\* the notifier's emitting methods called with every kind of argument, on
\* sockets that connect, subscribe, disconnect and are subscribed when gone
EmitNext ==
    \/ \E s \in RegSockets : Connect(s)
    \/ \E s \in RegSockets, k \in RegKeys : SocketSubscribe(s, k)
    \/ \E s \in RegSockets : Disconnect(s)
    \/ \E s \in RegSockets, k \in RegKeys : SubscribeSocketCall(s, k)
    \/ \E k \in RegKeys, a \in {"undefined", "DELETE"} : Publish(k, 1, a)
    \/ \E k \in RegKeys :
          NotifyMultipleChanges(<<[key |-> k, value |-> 1, action |-> "CREATE"],
                                  [key |-> CHOOSE k2 \in RegKeys : k2 # k,
                                   value |-> 2, action |-> "undefined"]>>)
    \/ \E k \in RegKeys, event \in {"config_changed", "maintenance"} :
          Broadcast(event, [key |-> k, value |-> 1, raw |-> FALSE,
                            action |-> "undefined"])

EmitSpec == RegInit /\ [][EmitNext]_vars

\* requests served one at a time: a call starts only when none is in flight
SeqNext ==
    \/ \E p \in Procs : Quiescent /\ Call(p)
    \/ \E p \in Procs : Step(p)
    \/ Tick

SeqInit == InitWith(Keys, Sockets, MaxSeqOps)

SeqSpec == SeqInit /\ [][SeqNext]_vars

\* ---------------------------------------- creates with registered callbacks
\* Callbacks registered through ConfigService.subscribe, two sockets, and
\* createConfig calls served one at a time.
BusInit == InitWith(Keys, RegSockets, MaxBusOps)

BusNext ==
    \/ \E p \in Procs, k \in Keys, v \in Values :
          Quiescent /\ CreateInsert(p, k, v, NoSchema)
    \/ \E p \in Procs : CreateHistSelect(p)
    \/ \E p \in Procs : CreateReturn(p)
    \/ \E s \in RegSockets : Connect(s)
    \/ \E s \in RegSockets, k \in Keys : SocketSubscribe(s, k)
    \/ \E s \in RegSockets, k \in Keys : SocketUnsubscribe(s, k)
    \/ \E s \in RegSockets : Disconnect(s)
    \/ \E s \in RegSockets, k \in Keys : SubscribeSocketCall(s, k)
    \/ \E k \in Keys, cb \in Callbacks : ServiceSubscribe(k, cb)
    \/ \E k \in Keys, cb \in Callbacks : ServiceUnsubscribe(k, cb)

BusSpec == BusInit /\ [][BusNext]_vars

\* ------------------------------------------------ the cache of the service
\* getConfig calls on four keys, addToCache calls with entries of the four
\* keys, and createConfig calls on the first key
CacheInit == InitWith(CacheKeys, Sockets, MaxCacheOps)

CacheNext ==
    \/ \E p \in Procs, k \in {1} :
          CreateInsert(p, k, JsNumber(1), NoSchema)
    \/ \E p \in Procs : CreateHistSelect(p)
    \/ \E p \in Procs : CreateReturn(p)
    \/ \E k \in CacheKeys :
          AddToCacheCall(k, Entry(SqlInsert(JsNumber(1), NoSchema)))
    \/ \E p \in Procs, k \in CacheKeys : GetCache(p, k)
    \/ \E p \in Procs : GetDb(p)
    \/ Tick
    \/ LateTick

CacheSpec == CacheInit /\ [][CacheNext]_vars

\* ------------------------------------------- mutations and reads of two keys
\* Every operation of the service may be called on either of two keys.
FrameInit == InitWith(FrameKeys, Sockets, MaxFrameOps)

FrameNext ==
    \/ \E p \in Procs, k \in FrameKeys, v \in Values :
          CreateInsert(p, k, v, NoSchema)
    \/ \E p \in Procs, k \in FrameKeys, v \in Values :
          UpdateSvcGet(p, k, v, NoSchema)
    \/ \E p \in Procs, k \in FrameKeys : DeleteGet(p, k)
    \/ \E p \in Procs, k \in FrameKeys : GetCache(p, k)
    \/ \E k \in FrameKeys : AddToCacheCall(k, Entry(SqlInsert(JsNumber(1), NoSchema)))
    \/ \E k \in FrameKeys \cup {Null} : ClearCacheCall(k)
    \/ \E p \in Procs : Step(p)

FrameSpec == FrameInit /\ [][FrameNext]_vars

\* ------------------------------------------- the queries over several keys
\* createConfig calls on four keys and the list queries.  The configData of
\* key 2 carries the first category, those of the other keys the second;
\* key 3 is created with config_type 'security', the others with
\* 'performance' (the two types that no row of insertInitialConfigs has).
ListInit == InitWith(ListKeys, Sockets, MaxListOps)

\* the queries: all, the categories of the requests (3 has no entry) and
\* 'commission' (11), the types of the requests and 'cpa'
Queries ==
    {[by |-> "all", arg |-> 0]}
        \cup {[by |-> "category", arg |-> c] : c \in {1, 2, 3, 11}}
        \cup {[by |-> "type", arg |-> t] :
                  t \in {"cpa", "security", "performance"}}

ListNext ==
    \/ \E p \in Procs, q \in Queries : ListCall(p, q)
    \/ \E p \in Procs, k \in ListKeys, s \in Schemas :
          CreateInsertWith(p, k, JsNumber(1), s,
                           IF k = 3 THEN "security" ELSE "performance",
                           IF k = 2 THEN 1 ELSE 2)
    \/ \E p \in Procs : CreateHistSelect(p)
    \/ \E p \in Procs : CreateReturn(p)

ListSpec == ListInit /\ [][ListNext]_vars

\* ------------------------------------ validation of values with an object shape
ShapeNext ==
    \/ \E p \in Procs, v \in ObjectValues, s \in ObjectShapes :
          ValidateCall(p, v, s)
    \/ \E p \in Procs, k \in Keys, v \in ObjectValues, s \in ObjectShapes :
          CreateInsert(p, k, v, s)
    \/ \E p \in Procs : CreateHistSelect(p)
    \/ \E p \in Procs : CreateReturn(p)

ShapeSpec == Init /\ [][ShapeNext]_vars

\* ------------------------------------ validation of typed property values
TypedNext ==
    \/ \E p \in Procs, v \in TypedValues, s \in TypedShapes :
          ValidateCall(p, v, s)
    \/ \E p \in Procs, v \in TypedValues : ValidateCall(p, v, NoSchema)
    \/ \E p \in Procs, k \in Keys, v \in TypedValues :
          CreateInsert(p, k, v, TypedShape([type |-> "number", minimum |-> 0,
                                           maximum |-> 2]))
    \/ \E p \in Procs : CreateHistSelect(p)
    \/ \E p \in Procs : CreateReturn(p)

TypedSpec == Init /\ [][TypedNext]_vars

\* ------------------------- the store operations with malformed shapes
MalformedNext ==
    \/ \E p \in Procs, v \in MalformedValues, s \in MalformedShapes :
          ValidateCall(p, v, s)
    \/ \E p \in Procs, k \in Keys, v \in MalformedValues,
          s \in MalformedShapes \cup {NoSchema} : CreateInsert(p, k, v, s)
    \/ \E p \in Procs, k \in Keys, v \in MalformedValues,
          s \in MalformedShapes \cup {NoSchema} : UpdateSvcGet(p, k, v, s)
    \/ \E p \in Procs : CreateHistSelect(p)
    \/ \E p \in Procs : CreateReturn(p)

MalformedSpec == Init /\ [][MalformedNext]_vars

\* ===================================================================
\* Properties
\* ===================================================================

\* C2: served one at a time, a getConfig that has returned gives the entry as
\* the store holds it after the last mutation: value and version of the active
\* row, and not-found when there is none (never a value a create, update or
\* delete has replaced).
C2_GetAfterMutationIsFresh ==
    \A p \in Procs :
        (pr[p].pc = "done" /\ pr[p].op = "get") =>
            IF pr[p].res \in {"hit", "found"}
            THEN IsActive(db[pr[p].key]) /\ pr[p].ret = Entry(db[pr[p].key])
            ELSE ~IsActive(db[pr[p].key])

\* a successful createConfig of key k has returned
CreateReturned(k) == [op |-> "create", version |-> 1] \in returned[k]

\* C8: a change_log never has more than 50 events, and once the createConfig
\* of the key has returned it is the last min(n, 50) of the n events
\* committed for the key (the CREATE event and those of the updates), in
\* commit order.
C8_HistoryBounded ==
    \A k \in DOMAIN db :
        /\ Len(db[k].change_log) <= HistoryLimit
        /\ CreateReturned(k) =>
              db[k].change_log =
                  LastN(fullLog[k], Min(Len(fullLog[k]), HistoryLimit))

\* C9: when createConfig has returned successfully and no update or delete of
\* the key has committed since, the stored entry has version 1, is active
\* and its change_log is the single CREATE event with old_value null and the
\* created value.
C9_CreateStoresVersionOne ==
    \A p \in Procs :
        (/\ pr[p].pc = "done" /\ pr[p].op = "create" /\ pr[p].res = "ok"
         /\ Len(fullLog[pr[p].key]) = 1) =>
            LET row == db[pr[p].key] IN
            /\ row.exists /\ row.active
            /\ row.version = 1
            /\ row.value = pr[p].ret.value
            /\ row.change_log = <<NewEntry("CREATE", Null, row.value)>>

\* does the number v conform to the schema s: there is none, or it is a
\* maximum for a number that v does not exceed (a number is not what an
\* object schema describes)
Conforms(v, s) ==
    s = NoSchema \/ (s.type = "number" /\ v.t = "number" /\ v.n <= s.maximum)

\* the schema an updateConfig validates against: the one it supplies, else
\* the stored one
Effective(s, row) == IF s # NoSchema THEN s ELSE row.validation_schema

\* C11: a createConfig whose value does not conform to the schema it carries
\* fails as invalid, an updateConfig of an active key whose value does not
\* conform to the effective schema (the one supplied, else the stored one)
\* fails, and both leave the store, the recorded history, the cache and the
\* notifications as they were.
C11_ValidationFailureChangesNothing ==
    [][\A p \in Procs, k \in CallKeys, v \in Values, s \in Schemas :
          /\ (CreateInsert(p, k, v, s) /\ ~Conforms(v, s)) =>
                /\ pr'[p].pc = "done" /\ pr'[p].res = "invalid"
                /\ UNCHANGED <<storeVars, cache, busVars, ghostVars>>
          /\ (/\ UpdateSvcGet(p, k, v, s)
              /\ IsActive(db[k])
              /\ ~Conforms(v, Effective(s, db[k]))) =>
                /\ pr'[p].pc = "done" /\ pr'[p].res # "ok"
                /\ UNCHANGED <<storeVars, cache, busVars, ghostVars>>]_vars

\* a createConfig was rejected as invalid against the schema it carried
\* while a createConfig of the key with that schema was on its way, and the
\* row of the key still holds the value of the latter
C11_Witness ==
    \E p, q \in Procs :
        /\ pr[p].pc = "done" /\ pr[p].op = "create" /\ pr[p].res = "invalid"
        /\ pr[p].val = JsNumber(2) /\ pr[p].sch = NumberMax(1)
        /\ pr[p].errs # <<>>
        /\ pr[q].op = "create" /\ pr[q].key = pr[p].key
        /\ pr[q].pc = "c_ret"
        /\ db[pr[p].key].value = JsNumber(1)

Failures == {"invalid", "duplicate", "notfound", "error"}

\* the write behind the notification c of key k is in the committed state
Committed(k, c) ==
    /\ c.op = "create"
    /\ db[k].exists /\ db[k].value = c.value
    /\ \E i \in 1..Len(fullLog[k]) :
          fullLog[k][i].action = "CREATE" /\ fullLog[k][i].new_value = c.value

\* C12: notifySubscribers is called for a mutation only when the mutation's
\* write is committed in the store, and a call that ends in a failure
\* (validation, duplicate key, not found, a rethrown error) publishes nothing.
C12_PublishOnlyAfterCommit ==
    [][/\ \A k \in DOMAIN db :
            published'[k] # published[k] => Committed(k, published'[k])
       /\ \A p \in Procs :
            (pr'[p] # pr[p] /\ pr'[p].pc = "done" /\ pr'[p].res \in Failures)
               => UNCHANGED <<published, inbox>>]_vars

\* the createConfig of a key has published its notification, and a later
\* createConfig of the key with another value failed as a duplicate
C12_Witness ==
    \E k \in Keys, p \in Procs :
        /\ published[k].op = "create" /\ published[k].value = db[k].value
        /\ pr[p].pc = "done" /\ pr[p].op = "create" /\ pr[p].res = "duplicate"
        /\ pr[p].key = k /\ pr[p].val # db[k].value

Mutations == {"create", "update", "delete"}

\* the action of the event of a mutating operation
ActionOf(op) ==
    IF op = "create" THEN "CREATE"
    ELSE IF op = "update" THEN "UPDATE" ELSE "DELETE"

\* C13: every event a socket is sent in the step in which a successful
\* createConfig, updateConfig or deleteConfig returns carries the action of
\* that mutation: CREATE for a create, UPDATE for an update, DELETE with a
\* null value for a delete.
C13_EventCarriesAction ==
    [][\A p \in Procs :
          (/\ pr[p].op \in Mutations /\ pr[p].pc \notin {"idle", "done"}
           /\ pr'[p].pc = "done" /\ pr'[p].res = "ok") =>
              \A s \in DOMAIN inbox :
                  \A i \in (Len(inbox[s]) + 1)..Len(inbox'[s]) :
                      /\ inbox'[s][i].action = ActionOf(pr[p].op)
                      /\ pr[p].op = "delete" => inbox'[s][i].value = Null]_vars

\* the sockets in the interest set of key k, the keys in the key set of s
Interest(k) == MapGet(subscribers, k, {})

KeysOf(s) == MapGet(socketSubscriptions, s, {})

\* C14: after every sequence of subscribe, unsubscribe, disconnect and
\* publish operations, socket s is in the interest set of key k if and only
\* if k is in the key set of s.
C14_IndexesAgree ==
    \A s \in RegSockets, k \in RegKeys : s \in Interest(k) <=> k \in KeysOf(s)

\* one socket is gone and cleaned up, the other is subscribed to one key
\* only and was sent an event
C14_Witness ==
    \E s, t \in RegSockets, k, k2 \in RegKeys :
        /\ s # t /\ k # k2
        /\ sock[s] = "closed" /\ s \notin DOMAIN socketSubscriptions
        /\ t \in Interest(k) /\ t \notin Interest(k2)
        /\ Len(inbox[t]) >= 1

\* C15: subscribing to a key that is already subscribed and unsubscribing a
\* key that is not subscribed leave the registry as it is, and a second
\* subscribe or unsubscribe gives the registry of the first; the same holds
\* for the callbacks of ConfigService.subscribe / unsubscribe.
C15_SubscribeIdempotent ==
    /\ \A s \in RegSockets, k \in RegKeys :
          LET once == SubscribeSocket(Registry, s, k)
              off == UnsubscribeSocket(Registry, s, k)
          IN  /\ SubscribeSocket(once, s, k) = once
              /\ UnsubscribeSocket(off, s, k) = off
              /\ (s \in Interest(k) /\ k \in KeysOf(s)) => once = Registry
              /\ (s \notin Interest(k) /\ k \notin KeysOf(s)) => off = Registry
    /\ \A k \in Keys, cb \in Callbacks :
          LET once == SvcSubscribe(svcSubs, k, cb)
              off == SvcUnsubscribe(svcSubs, k, cb)
          IN  /\ SvcSubscribe(once, k, cb) = once
              /\ SvcUnsubscribe(off, k, cb) = off
              /\ cb \in MapGet(svcSubs, k, {}) => once = svcSubs
              /\ cb \notin MapGet(svcSubs, k, {}) => off = svcSubs

\* a connected socket is subscribed to one key and not to the other, and one
\* callback is registered for a key while the other is not
C15_Witness ==
    \E s \in RegSockets, k, k2 \in RegKeys, j \in Keys :
        /\ sock[s] = "open"
        /\ s \in Interest(k) /\ s \notin Interest(k2)
        /\ MapGet(svcSubs, j, {}) = {BridgeCallback}

\* C16: the step in which a socket disconnects leaves it in no key's interest
\* set and without an entry in the socket index, and a socket that is gone
\* is sent no further event.
C16_DisconnectCleansUp ==
    [][\A s \in RegSockets :
          /\ (sock[s] = "open" /\ sock'[s] = "closed") =>
                /\ s \notin DOMAIN socketSubscriptions'
                /\ \A k \in DOMAIN subscribers' : s \notin subscribers'[k]
          /\ sock[s] = "closed" => inbox'[s] = inbox[s]]_vars

\* two sockets received an event of a key, one of them disconnected, and the
\* next event of that key reached the other one only
C16_Witness ==
    \E s, t \in RegSockets :
        /\ sock[s] = "closed" /\ sock[t] = "open"
        /\ Len(inbox[s]) = 1 /\ Len(inbox[t]) = 2
        /\ inbox[t][1].key = inbox[s][1].key
        /\ inbox[t][2].key = inbox[s][1].key

\* C17: notifyConfigChange(k, v, action) removes from the registry every
\* socket of the key's interest set whose connection is gone, and emits the
\* event (with the action given, UPDATE when none is) once to every socket
\* of the set that is connected, which stays subscribed.
C17_PublishDropsDeadSockets ==
    [][\A k \in RegKeys, a \in {"undefined", "DELETE"} :
          Publish(k, 1, a) =>
              \A s \in RegSockets :
                  /\ (s \in Interest(k) /\ sock[s] # "open") =>
                        /\ s \notin MapGet(subscribers', k, {})
                        /\ k \notin MapGet(socketSubscriptions', s, {})
                        /\ inbox'[s] = inbox[s]
                  /\ (s \in Interest(k) /\ sock[s] = "open") =>
                        /\ s \in MapGet(subscribers', k, {})
                        /\ inbox'[s] =
                              Append(inbox[s],
                                     [key |-> k, value |-> 1, raw |-> FALSE,
                                      action |-> IF a = "DELETE" THEN "DELETE"
                                                 ELSE "UPDATE"])
                  /\ s \notin Interest(k) => inbox'[s] = inbox[s]]_vars

\* the interest set of a key held a socket that is gone and one that is
\* connected, and a DELETE event of the key has been emitted to the
\* connected one
C17_Witness ==
    \E s, t \in RegSockets, k \in RegKeys :
        /\ sock[s] = "closed" /\ sock[t] = "open"
        /\ Interest(k) = {t}
        /\ k \notin KeysOf(s)
        /\ \E k2 \in RegKeys : k2 # k /\ s \in Interest(k2)
        /\ Len(inbox[t]) >= 1 /\ inbox[t][Len(inbox[t])].key = k
        /\ inbox[t][Len(inbox[t])].action = "DELETE"
        /\ inbox[s] = <<>>

\* C18: when a createConfig returns while a callback that throws and the
\* callback that feeds the notifier are both registered for its key, and a
\* socket of the key's interest set is gone, the call still succeeds, the
\* inserted row stays, the notifySubscribers call completes, every connected
\* socket of the interest set is sent one event with the key and the value,
\* and the sockets that are gone leave the interest set.
C18_FailedDeliveryIsIsolated ==
    [][\A p \in Procs :
          (/\ pr[p].pc = "c_ret" /\ pr'[p].pc = "done"
           /\ Callbacks \subseteq MapGet(svcSubs, pr[p].key, {})) =>
              /\ pr'[p].res = "ok"
              /\ UNCHANGED storeVars
              /\ published'[pr[p].key].value = pr[p].ret.value
              /\ \A s \in Interest(pr[p].key) \cap Connected :
                    /\ Len(inbox'[s]) = Len(inbox[s]) + 1
                    /\ SubSeq(inbox'[s], 1, Len(inbox[s])) = inbox[s]
                    /\ inbox'[s][Len(inbox'[s])].key = pr[p].key
                    /\ inbox'[s][Len(inbox'[s])].value = pr[p].ret.value
              /\ \A s \in Interest(pr[p].key) \ Connected :
                    s \notin MapGet(subscribers', pr[p].key, {})]_vars

\* a createConfig returned successfully with both callbacks registered; its
\* event reached the connected socket, and the socket that was subscribed
\* when it was gone has been taken out of the interest set
C18_Witness ==
    \E p \in Procs, s, t \in RegSockets :
        /\ pr[p].pc = "done" /\ pr[p].op = "create" /\ pr[p].res = "ok"
        /\ MapGet(svcSubs, pr[p].key, {}) = Callbacks
        /\ sock[s] = "closed" /\ sock[t] = "open"
        /\ MapGet(socketSubscriptions, s, {pr[p].key}) = {}
        /\ Interest(pr[p].key) = {t}
        /\ Len(inbox[t]) = 1 /\ inbox[t][1].value = pr[p].ret.value
        /\ inbox[s] = <<>>

\* the keys of the cache in the order the Map iterates them
KeySeq(c) == [i \in 1..Len(c) |-> c[i].key]

\* C19: the cache never holds more than CacheMaxSize entries (and never two
\* entries of one key).
C19_CacheBounded ==
    /\ Len(cache) <= CacheMaxSize
    /\ \A i, j \in 1..Len(cache) : cache[i].key = cache[j].key => i = j

\* the only request so far, a getConfig, was served from the cache; its key
\* was never the key of a createConfig and no TTL has run out, and the key is
\* no longer in the cache, which is full: an insert has evicted it
C19_Witness ==
    \E p \in Procs :
        /\ pr[p].pc = "done" /\ pr[p].op = "get" /\ pr[p].res = "hit"
        /\ \A q \in Procs \ {p} : pr[q].pc = "idle"
        /\ db[pr[p].key] = NoRow
        /\ ~CacheHas(cache, pr[p].key)
        /\ now = 0
        /\ Len(cache) = CacheMaxSize

\* C20: addToCache of key k keeps the position of k when k is resident
\* (nothing is evicted), appends k when there is room, and otherwise evicts
\* exactly the first key in insertion order and appends k; the entry of k is
\* the one just passed. A read served from the cache moves nothing.
C20_EvictsOldestInserted ==
    [][/\ \A p \in Procs, k \in CacheKeys :
            (GetCache(p, k) /\ pr'[p].res = "hit") => cache' = cache
       /\ \A k \in CacheKeys :
            AddToCacheCall(k, Entry(SqlInsert(JsNumber(1), NoSchema))) =>
                LET before == KeySeq(cache)
                IN  /\ KeySeq(cache') =
                          IF CacheHas(cache, k) THEN before
                          ELSE IF Len(before) < CacheMaxSize
                               THEN Append(before, k)
                               ELSE Append(Tail(before), k)
                    /\ CacheHas(cache', k)
                    /\ cache'[CacheIdx(cache', k)].version = 1
                    /\ cache'[CacheIdx(cache', k)].ttl = now + CacheTTL
                    /\ \A i \in 1..Len(cache') :
                          cache'[i].key # k =>
                              cache'[i] = cache[CacheIdx(cache, cache'[i].key)]]_vars

\* the only request so far, a getConfig, was served from the cache; time has
\* passed since, and an insert made after that has evicted the key that was
\* read, not the key that was inserted before the time passed and not read
C20_Witness ==
    \E p \in Procs :
        /\ pr[p].pc = "done" /\ pr[p].op = "get" /\ pr[p].res = "hit"
        /\ \A q \in Procs \ {p} : pr[q].pc = "idle"
        /\ db[pr[p].key] = NoRow
        /\ ~CacheHas(cache, pr[p].key)
        /\ Len(cache) = CacheMaxSize
        /\ now = 1
        /\ cache[1].ttl = CacheTTL
        /\ cache[Len(cache)].ttl = 1 + CacheTTL

\* C21: a getConfig is served from the cache only when the key is cached and
\* the time is strictly before the entry's expiry instant, and then it returns
\* the cached entry; at or after the expiry instant the lookup removes the
\* entry and the call goes on to read the store; so does a lookup of a key
\* that is not cached.
C21_LookupHonoursExpiry ==
    [][\A p \in Procs, k \in CacheKeys :
          GetCache(p, k) =>
              IF CacheHas(cache, k) /\ now < cache[CacheIdx(cache, k)].ttl
              THEN /\ pr'[p].pc = "done" /\ pr'[p].res = "hit"
                   /\ pr'[p].ret = Entry(cache[CacheIdx(cache, k)])
                   /\ cache' = cache
              ELSE /\ pr'[p].pc = "g_db"
                   /\ ~CacheHas(cache', k)
                   /\ KeySeq(cache') =
                         SelectSeq(KeySeq(cache), LAMBDA x : x # k)]_vars

\* after one addToCache call and nothing else, a getConfig has looked the
\* cache up at the expiry instant of the entry: the cache is empty and the
\* call is on its way to the store
C21_Witness ==
    \E p \in Procs :
        /\ pr[p].op = "get" /\ pr[p].pc = "g_db"
        /\ \A q \in Procs \ {p} : pr[q].pc = "idle"
        /\ budget = MaxCacheOps - 2
        /\ now = CacheTTL
        /\ cache = <<>>

\* the entries of the cache, without their order
CacheEntries(c) == {c[i] : i \in 1..Len(c)}

C23_DuplicateCreateChangesNothing ==
    [][\A p \in Procs, k \in CallKeys, v \in Values :
          (CreateInsert(p, k, v, NoSchema) /\ IsActive(db[k])) =>
              /\ pr'[p].pc = "done" /\ pr'[p].res = "duplicate"
              /\ UNCHANGED <<storeVars, cache, busVars, ghostVars>>]_vars

\* a createConfig with another value was rejected as a duplicate of an entry
\* whose createConfig had returned; the entry is active with its value
C23_Witness ==
    \E p \in Procs, k \in Keys :
        /\ pr[p].pc = "done" /\ pr[p].op = "create" /\ pr[p].res = "duplicate"
        /\ pr[p].key = k /\ pr[p].val # db[k].value
        /\ CreateReturned(k)
        /\ IsActive(db[k]) /\ db[k].version = 1
        /\ published[k].value = db[k].value

\* C24: an updateConfig or deleteConfig of a key that has no active row
\* fails as not found; the rows, the recorded history, the cache and the
\* notifications stay as they are.
C24_MissingKeyChangesNothing ==
    [][\A p \in Procs, k \in CallKeys :
          /\ \A v \in Values :
                (UpdateSvcGet(p, k, v, NoSchema)
                    /\ ~(db[k].exists /\ db[k].active)) =>
                    /\ pr'[p].pc = "done" /\ pr'[p].res = "notfound"
                    /\ UNCHANGED <<storeVars, cache, busVars, ghostVars>>
          /\ (DeleteGet(p, k) /\ ~(db[k].exists /\ db[k].active)) =>
                /\ pr'[p].pc = "done" /\ pr'[p].res = "notfound"
                /\ UNCHANGED <<storeVars, cache, busVars, ghostVars>>]_vars

\* an updateConfig or deleteConfig of a key that was never created has
\* failed as not found; the key still has no row
C24_Witness ==
    \E p \in Procs, k \in Keys :
        /\ pr[p].pc = "done" /\ pr[p].op \in {"update", "delete"}
        /\ pr[p].res = "notfound" /\ pr[p].key = k
        /\ db[k] = NoRow
        /\ fullLog[k] = <<>> /\ published[k] = NoCall

\* the number of rows of key k that were ever inserted
RowsInserted(k) ==
    Cardinality({i \in 1..Len(fullLog[k]) : fullLog[k][i].action = "CREATE"})

\* C26: no key ever has a second row inserted, so it has at most one active
\* entry; a createConfig of a key that has a row, active or not, fails as a
\* duplicate and leaves the row as it is.
C26_OneRowPerKey ==
    [][\A k \in DOMAIN db :
          /\ RowsInserted(k)' <= 1
          /\ db[k].exists => db'[k] = db[k]
          /\ \A p \in Procs, v \in Values :
                (CreateInsert(p, k, v, NoSchema) /\ db[k].exists) =>
                    pr'[p].pc = "done" /\ pr'[p].res = "duplicate"]_vars

\* a createConfig met the row that another createConfig, still on its way,
\* had inserted, and was rejected; one row was inserted for the key
C26_Witness ==
    \E p, q \in Procs, k \in Keys :
        /\ pr[p].pc = "done" /\ pr[p].op = "create" /\ pr[p].res = "duplicate"
        /\ pr[p].key = k
        /\ pr[q].op = "create" /\ pr[q].key = k /\ pr[q].pc = "c_hsel"
        /\ db[k].exists /\ db[k].active
        /\ RowsInserted(k) = 1

\* C27: the failure of the history append of a createConfig is not passed
\* on: the call goes on to its return, the inserted row stays in the table
\* as it was inserted, and the call returns success with that row.
C27_HistoryFailureIsSwallowed ==
    [][\A p \in Procs :
          LET k == pr[p].key IN
          /\ (/\ pr[p].pc = "c_hsel" /\ pr'[p].pc # pr[p].pc
              /\ AddToHistoryThrows(db[k].change_log)) =>
                (pr'[p].pc = "c_ret" /\ db'[k] = db[k] /\ db'[k].exists)
          /\ (pr[p].pc = "c_ret" /\ pr'[p].pc # pr[p].pc) =>
                /\ pr'[p].pc = "done" /\ pr'[p].res = "ok"
                /\ db'[k].exists /\ db'[k].active
                /\ pr'[p].ret = Entry(db'[k])]_vars

\* a createConfig has returned successfully although its history append
\* failed: the CREATE event is not in the change_log of the row it inserted
C27_Witness ==
    \E p \in Procs :
        /\ pr[p].pc = "done" /\ pr[p].op = "create" /\ pr[p].res = "ok"
        /\ db[pr[p].key].exists /\ db[pr[p].key].active
        /\ db[pr[p].key].change_log = <<>>
        /\ Len(fullLog[pr[p].key]) = 1

\* C28: an updateConfig of an active key is rejected as invalid, and writes
\* nothing, when its value does not conform to the schema it supplies or,
\* when it supplies none, to the schema stored for the key; it is not
\* rejected as invalid when the value conforms.
C28_UpdateUsesEffectiveSchema ==
    [][\A p \in Procs, k \in CallKeys, v \in Values, s \in Schemas :
          (UpdateSvcGet(p, k, v, s) /\ IsActive(db[k])) =>
              IF Conforms(v, Effective(s, db[k]))
              THEN pr'[p].res # "invalid"
              ELSE /\ pr'[p].pc = "done" /\ pr'[p].res = "invalid"
                   /\ UNCHANGED <<storeVars, ghostVars>>]_vars

\* the names in a sequence
Names(list) == {list[i] : i \in 1..Len(list)}

\* the declared properties of value v that its shape rejects
FailingLeaves(v, shape) ==
    {n \in DOMAIN v.fields :
        \E i \in 1..Len(shape.properties) :
            /\ shape.properties[i].name = n
            /\ v.fields[n].n < shape.properties[i].prop.minimum}

\* C29: for an object shape with a "required" list, a value that lacks a
\* listed property is reported invalid, and a value that has every listed
\* property and no rejected property is reported valid even when it lacks a
\* property that is not listed.
C29_RequiredListEnforced ==
    [][\A p \in Procs, v \in ObjectValues, s \in ObjectShapes :
          (ValidateCall(p, v, s) /\ "required" \in DOMAIN s) =>
              /\ ~(Names(s.required) \subseteq DOMAIN v.fields) =>
                    pr'[p].res = "invalid"
              /\ (/\ Names(s.required) \subseteq DOMAIN v.fields
                  /\ FailingLeaves(v, s) = {}) => pr'[p].res = "valid"]_vars

\* C30: the errors of a validation are one per rejected leaf of the value,
\* each with the path of its leaf.
C30_AllFailingLeavesReported ==
    [][\A p \in Procs, v \in ObjectValues, s \in ObjectShapes :
          ValidateCall(p, v, s) =>
              /\ Names(pr'[p].errs) = FailingLeaves(v, s)
              /\ Len(pr'[p].errs) = Cardinality(FailingLeaves(v, s))]_vars

\* the value of property x is outside what its shape asks for: a number
\* outside the bounds, a string outside the enum, or a value of another type
Outside(leaf, property) ==
    IF property.type = "number"
    THEN \/ leaf.t # "number"
         \/ leaf.n < property.minimum
         \/ leaf.n > property.maximum
    ELSE IF property.type = "string"
    THEN \/ leaf.t # "string"
         \/ /\ "enum" \in DOMAIN property
            /\ \A i \in 1..Len(property.enum) : property.enum[i] # leaf.s
    ELSE leaf.t # "boolean"

\* C31: for a property of type number, string or boolean, a value outside
\* the bounds, outside the enum or of another type is reported invalid with
\* the path of the property (x, or x.y for a property of a nested object),
\* and a number exactly at the minimum or the maximum is reported valid.
C31_OutsideLeafRejectedWithPath ==
    [][\A p \in Procs, v \in TypedValues, s \in TypedShapes :
          ValidateCall(p, v, s) =>
              LET property == s.properties[1].prop
                  leaf == v.fields.x
              IN  /\ (/\ property.type \in {"number", "string", "boolean"}
                      /\ Outside(leaf, property)) =>
                         (pr'[p].res = "invalid" /\ pr'[p].errs = <<"x">>)
                  /\ (/\ property.type = "number" /\ leaf.t = "number"
                      /\ leaf.n \in {property.minimum, property.maximum}) =>
                         pr'[p].res = "valid"
                  /\ (/\ property.type = "object" /\ leaf.t = "object"
                      /\ Outside(leaf.fields.y, property.properties[1].prop)) =>
                         (pr'[p].res = "invalid" /\ pr'[p].errs = <<"x.y">>)]_vars

\* C32: with a shape that has a null property, validateConfig does not
\* throw: it answers valid = false with the one error field 'schema'; a
\* createConfig that carries such a shape fails as invalid with that error,
\* an updateConfig (of an active key) that carries one fails, and the rows,
\* the history, the cache and the notifications stay as they are.
C32_MalformedShapeIsValidationFailure ==
    [][\A p \in Procs, v \in MalformedValues, s \in MalformedShapes :
          /\ ValidateCall(p, v, s) =>
                /\ pr'[p].res = "invalid"
                /\ pr'[p].out = [valid |-> FALSE, errors |-> <<"schema">>]
          /\ \A k \in Keys :
                /\ CreateInsert(p, k, v, s) =>
                      /\ pr'[p].pc = "done" /\ pr'[p].res = "invalid"
                      /\ pr'[p].errs = <<"schema">>
                      /\ UNCHANGED <<storeVars, cache, busVars, ghostVars>>
                /\ (UpdateSvcGet(p, k, v, s) /\ db[k].exists /\ db[k].active) =>
                      /\ pr'[p].pc = "done" /\ pr'[p].res # "ok"
                      /\ UNCHANGED <<storeVars, cache, busVars, ghostVars>>]_vars

\* a createConfig that carried a malformed shape was rejected with the
\* schema error while the entry of its key is stored and active, and a
\* validation request with a malformed shape was answered with that error
C32_Witness ==
    \E p, q \in Procs, k \in Keys :
        /\ pr[p].pc = "done" /\ pr[p].op = "create" /\ pr[p].res = "invalid"
        /\ pr[p].key = k /\ pr[p].errs = <<"schema">>
        /\ pr[p].sch \in MalformedShapes
        /\ db[k].exists /\ db[k].active /\ db[k].version = 1
        /\ pr[q].pc = "done" /\ pr[q].op = "validate"
        /\ pr[q].out = [valid |-> FALSE, errors |-> <<"schema">>]

\* C33: a validation without a shape succeeds for every value, and its
\* result carries the value it was given, unchanged.
C33_NoShapeReturnsInput ==
    [][\A p \in Procs, v \in TypedValues :
          ValidateCall(p, v, NoSchema) =>
              /\ pr'[p].res = "valid"
              /\ "value" \in DOMAIN pr'[p].out
              /\ pr'[p].out.value = v]_vars

\* value v is what the shape describes: of the shape's type, a number within
\* the inclusive bounds, a string of the enum, an array of items of the item
\* shape, an object whose properties have their shapes and whose required
\* properties are present; a shape of any other type describes every value
RECURSIVE Satisfies(_, _)
Satisfies(v, shape) ==
    IF shape.type = "number"
    THEN /\ v.t = "number"
         /\ "minimum" \in DOMAIN shape => v.n >= shape.minimum
         /\ "maximum" \in DOMAIN shape => v.n <= shape.maximum
    ELSE IF shape.type = "string"
    THEN /\ v.t = "string"
         /\ "enum" \in DOMAIN shape =>
               \E i \in 1..Len(shape.enum) : shape.enum[i] = v.s
    ELSE IF shape.type = "boolean" THEN v.t = "boolean"
    ELSE IF shape.type = "array"
    THEN /\ v.t = "array"
         /\ "items" \in DOMAIN shape =>
               \A i \in 1..Len(v.items) : Satisfies(v.items[i], shape.items)
    ELSE IF shape.type = "object"
    THEN /\ v.t = "object"
         /\ \A i \in 1..Len(shape.properties) :
               LET d == shape.properties[i]
               IN  d.name \in DOMAIN v.fields =>
                       Satisfies(v.fields[d.name], d.prop)
         /\ "required" \in DOMAIN shape =>
               \A i \in 1..Len(shape.required) :
                   shape.required[i] \in DOMAIN v.fields
    ELSE TRUE

\* C34: for every shape built from object, string, number, boolean, array
\* and the fallback type, a value that is what the shape describes is
\* reported valid.
C34_SatisfyingValueIsValid ==
    [][\A p \in Procs, v \in TypedValues, s \in TypedShapes :
          (ValidateCall(p, v, s) /\ Satisfies(v, s)) =>
              pr'[p].res = "valid"]_vars

C37_HistoryKeepsCommitOrder ==
    \A k \in DOMAIN db :
        (\A p \in Procs :
            ~(pr[p].key = k /\ pr[p].pc \in {"c_hsel", "c_hupd", "c_ret"})) =>
            LET n == Len(fullLog[k])
                kept == {i \in 1..n : i > n - HistoryLimit}
                Place(i) == {j \in 1..Len(db[k].change_log) :
                                db[k].change_log[j] = fullLog[k][i]}
            IN  /\ \A i \in kept : Place(i) # {}
                /\ \A i1, i2 \in kept :
                      i1 < i2 => \A j1 \in Place(i1), j2 \in Place(i2) : j1 < j2

\* the sum of the values of the function counts
RECURSIVE SumOf(_)
SumOf(counts) ==
    IF DOMAIN counts = {} THEN 0
    ELSE LET k == CHOOSE x \in DOMAIN counts : TRUE
         IN  counts[k] + SumOf([x \in DOMAIN counts \ {k} |-> counts[x]])

\* C40: after every sequence of registry operations no key of the
\* key-to-sockets index has an empty interest set, the uniqueConfigs figure
\* of getStats is the number of keys that have at least one subscribed
\* socket, and totalSubscriptions is the sum of the per-key counts.
C40_StatsCountSubscribedKeys ==
    /\ \A k \in DOMAIN subscribers : subscribers[k] # {}
    /\ GetStats.uniqueConfigs =
          Cardinality({k \in RegKeys :
                          \E s \in RegSockets :
                              k \in DOMAIN subscribers /\ s \in subscribers[k]})
    /\ GetStats.totalSubscriptions = SumOf(GetStats.subscriptionsByConfig)

\* a socket unsubscribed from a key and another one disconnected, which
\* emptied the interest sets of both keys, and one socket is subscribed again
C40_Witness ==
    \E s, t \in RegSockets, k \in RegKeys :
        /\ s # t
        /\ sock[s] = "closed" /\ s \notin DOMAIN socketSubscriptions
        /\ sock[t] = "open"
        /\ DOMAIN subscribers = {k}
        /\ subscribers[k] = {t}
        /\ GetStats.uniqueConfigs = 1
        /\ GetStats.totalSubscriptions = 1
        /\ \E i \in 1..Len(inbox[s]) : inbox[s][i].key # k

\* C35: a list query returns each entry that is stored, active and matches
\* the filter at the time of the query exactly once, as it is stored, and no
\* other entry; getAllConfigs returns them by ascending category and, within
\* a category, ascending key, the other two by ascending key.
C35_QueriesReturnActiveEntriesInOrder ==
    [][\A p \in Procs, q \in Queries :
          ListCall(p, q) =>
              /\ pr'[p].res = "ok"
              /\ LET rows == pr'[p].out.rows
                     want == {k \in DOMAIN db :
                                 /\ db[k].exists /\ db[k].active
                                 /\ q.by = "category" =>
                                       db[k].config_category = q.arg
                                 /\ q.by = "type" =>
                                       db[k].config_type = q.arg}
                 IN  /\ {rows[i].key : i \in 1..Len(rows)} = want
                     /\ Len(rows) = Cardinality(want)
                     /\ \A i \in 1..Len(rows) : rows[i].row = db[rows[i].key]
                     /\ \A i, j \in 1..Len(rows) :
                           i < j =>
                               IF q.by = "all"
                               THEN \/ rows[i].row.config_category
                                          < rows[j].row.config_category
                                    \/ /\ rows[i].row.config_category
                                             = rows[j].row.config_category
                                       /\ rows[i].key < rows[j].key
                               ELSE rows[i].key < rows[j].key]_vars
====
